---------------------------- MODULE Spec2Model ----------------------------
(***************************************************************************)
(* CenQuery: question -> intents -> tables (Backend/main.py and the       *)
(* Dataset evaluation generator), SQL normalisation, heuristic patching,   *)
(* the self-healing executor, the schema cache built at start-up and the   *)
(* generate requests.  Text is modelled as sequences of                    *)
(* one-character strings so that substring search, replacement and the     *)
(* regular-expression rewrites are computed as the code computes them.     *)
(***************************************************************************)
EXTENDS Integers, Sequences, FiniteSets, TLC

(***************************************************************************)
(* Bounds of the model                                                     *)
(***************************************************************************)
\* largest number of lexicon fragments making up one question
MaxWords == 5

(***************************************************************************)
(* Characters and text helpers (Python str semantics)                      *)
(***************************************************************************)
UpperChars == <<"A","B","C","D","E","F","G","H","I","J","K","L","M",
                "N","O","P","Q","R","S","T","U","V","W","X","Y","Z">>

LowerChars == <<"a","b","c","d","e","f","g","h","i","j","k","l","m",
                "n","o","p","q","r","s","t","u","v","w","x","y","z">>

\* the character U+0060 of a code fence, which a TLA+ string cannot hold
BackQuote == "U+0060"

DigitChars == {"0","1","2","3","4","5","6","7","8","9"}

UpperSet == {UpperChars[i] : i \in 1..Len(UpperChars)}

LowerSet == {LowerChars[i] : i \in 1..Len(LowerChars)}

\* \w of Python's re: letters, digits and the underscore
WordChars == UpperSet \cup LowerSet \cup DigitChars \cup {"_"}

\* str.lower() on one character
LowerChar(c) ==
  IF c \in UpperSet
  THEN LowerChars[CHOOSE i \in 1..Len(UpperChars) : UpperChars[i] = c]
  ELSE c

\* str.lower()
Lower(s) == [i \in 1..Len(s) |-> LowerChar(s[i])]

\* every non-empty s[i:j] of s
Substrings(s) == {SubSeq(s, i, j) : i \in 1..Len(s), j \in 1..Len(s)} \ {<<>>}

\* whether position i of s (1-based, 0 and Len+1 are outside) is a \w character
IsWordAt(s, i) == i >= 1 /\ i <= Len(s) /\ s[i] \in WordChars

\* \b between positions i-1 and i of s
BoundaryBefore(s, i) == IsWordAt(s, i - 1) # IsWordAt(s, i)

\* every non-empty s[i:j] of s that has a \b on both sides
WordSubstrings(s) ==
  {SubSeq(s, p[1], p[2]) :
     p \in {r \in (1..Len(s)) \X (1..Len(s)) :
              r[1] <= r[2] /\ BoundaryBefore(s, r[1]) /\ BoundaryBefore(s, r[2] + 1)}}

\* re.search(r'\b' + re.escape(t) + r'\b', s), for a non-empty t
ContainsWord(s, t) == t \in WordSubstrings(s)

(***************************************************************************)
(* Text search and rewriting (str.replace, str.strip, re.sub)               *)
(***************************************************************************)
\* s[i:i+Len(t)] == t, for a 1-based start i
MatchAt(s, i, t) ==
  /\ i >= 1
  /\ i + Len(t) - 1 <= Len(s)
  /\ \A k \in 1..Len(t) : s[i + k - 1] = t[k]

\* Python's  t in s
Contains(s, t) == \E i \in 1..(Len(s) - Len(t) + 1) : MatchAt(s, i, t)

RECURSIVE SubFrom(_, _, _, _)
\* re.sub and str.replace from position pos on: ends[p] is the position after
\* the match that starts at p (0: no match there), repl[p] its replacement;
\* matches are never empty, are taken leftmost first and do not overlap
SubFrom(s, ends, repl, pos) ==
  LET hits == {p \in pos..Len(s) : ends[p] # 0}
      p == CHOOSE h \in hits : \A g \in hits : h <= g
  IN  IF hits = {} THEN SubSeq(s, pos, Len(s))
      ELSE SubSeq(s, pos, p - 1) \o repl[p] \o SubFrom(s, ends, repl, ends[p])

\* str.replace(old, new) for a non-empty old
Replace(s, old, new) ==
  SubFrom(s,
          [p \in 1..Len(s) |-> IF MatchAt(s, p, old) THEN p + Len(old) ELSE 0],
          [p \in 1..Len(s) |-> new],
          1)

\* the characters str.strip() and \s take for white space
SpaceChars == {" ", "\n", "\t"}

\* the position after the longest run of characters of C that starts at i
RunEnd(s, i, C) ==
  LET stops == {k \in i..Len(s) : s[k] \notin C}
  IN  IF stops = {} THEN Len(s) + 1 ELSE CHOOSE k \in stops : \A j \in stops : k <= j

\* the position of the first character of the run of C that ends at i
RunStart(s, i, C) ==
  LET stops == {k \in 1..i : s[k] \notin C}
  IN  IF stops = {} THEN 1 ELSE (CHOOSE k \in stops : \A j \in stops : j <= k) + 1

\* str.strip()
Strip(s) ==
  LET first == RunEnd(s, 1, SpaceChars)
      last  == RunStart(s, Len(s), SpaceChars) - 1
  IN  IF first > last THEN <<>> ELSE SubSeq(s, first, last)

\* s.split(sep)[0] for a one-character sep
BeforeFirst(s, sep) ==
  LET hits == {i \in 1..Len(s) : s[i] = sep}
  IN  IF hits = {} THEN s
      ELSE SubSeq(s, 1, (CHOOSE i \in hits : \A j \in hits : i <= j) - 1)

(* Pieces of a regular expression.  Each takes the position to read next     *)
(* (0: the match has failed already) and gives the position after the piece, *)
(* or 0.  Every pattern of the service is matched without choice: a run is   *)
(* always followed by a character outside its class.                         *)
\* a literal
Lit(s, i, t) == IF i # 0 /\ MatchAt(s, i, t) THEN i + Len(t) ELSE 0

\* C+ for a character class C
Run1(s, i, C) ==
  IF i = 0 THEN 0
  ELSE LET e == RunEnd(s, i, C) IN IF e > i THEN e ELSE 0

\* C* for a character class C
Run0(s, i, C) == IF i = 0 THEN 0 ELSE RunEnd(s, i, C)

\* [^c]+ for a character c
RunNot1(s, i, c) ==
  IF i = 0 THEN 0
  ELSE LET stop == {k \in i..Len(s) : s[k] = c}
           e == IF stop = {} THEN Len(s) + 1
                ELSE CHOOSE k \in stop : \A j \in stop : k <= j
       IN  IF e > i THEN e ELSE 0

\* re.search: the leftmost position where ends is not 0, or 0
FirstMatch(s, ends) ==
  LET hits == {p \in 1..Len(s) : ends[p] # 0}
  IN  IF hits = {} THEN 0 ELSE CHOOSE p \in hits : \A q \in hits : p <= q


(***************************************************************************)
(* The keyword tables of INTENTS (the same in Backend/main.py and in       *)
(* Dataset/generate_eval_data.py), without the CSV keywords                *)
(***************************************************************************)
population_strong ==
  { <<"b","o","y","s">>, <<"c","i","t","i","z","e","n","s">>, <<"c","o","u","n","t">>,
    <<"d","w","e","l","l","e","r","s">>, <<"f","e","m","a","l","e">>,
    <<"g","e","n","d","e","r">>, <<"g","i","r","l","s">>,
    <<"h","o","u","s","e","h","o","l","d","s">>, <<"l","i","v","e">>,
    <<"l","i","v","i","n","g">>, <<"m","a","l","e">>, <<"m","e","n">>,
    <<"p","e","o","p","l","e">>, <<"p","e","r","s","o","n","s">>,
    <<"p","o","p","u","l","a","t","i","o","n">>, <<"r","e","s","i","d","e","n","t","s">>,
    <<"s","e","x"," ","r","a","t","i","o">>, <<"t","o","t","a","l">>,
    <<"v","i","l","l","a","g","e","r","s">>, <<"w","o","m","e","n">> }

population_weak ==
  { <<"d","i","f","f","e","r","e","n","c","e">>, <<"f","e","w","e","s","t">>,
    <<"g","a","p">>, <<"h","i","g","h","e","r">>, <<"l","a","r","g","e","s","t">>,
    <<"l","e","a","s","t">>, <<"l","e","s","s">>, <<"l","o","w","e","r">>,
    <<"m","o","r","e">>, <<"m","o","s","t">>, <<"p","e","r","c","e","n","t">>,
    <<"p","e","r","c","e","n","t","a","g","e">>, <<"r","a","t","i","o">>,
    <<"s","m","a","l","l","e","s","t">> }

religion_strong ==
  { <<"c","o","m","m","u","n","i","t","y">>, <<"f","a","i","t","h">>,
    <<"p","a","r","s","i">>, <<"p","a","r","s","i","s">>,
    <<"r","e","l","i","g","i","o","n">>, <<"r","e","l","i","g","i","o","u","s">>,
    <<"z","o","r","o","a","s","t","r","i","a","n">>,
    <<"z","o","r","o","a","s","t","r","i","a","n","s">> }

religion_weak == {}

language_strong ==
  { <<"l","a","n","g","u","a","g","e">>, <<"l","a","n","g","u","a","g","e","s">>,
    <<"m","o","t","h","e","r"," ","t","o","n","g","u","e">>,
    <<"s","p","e","a","k","e","r","s">>, <<"s","p","o","k","e","n">> }

language_weak == {}

education_strong ==
  { <<"c","o","l","l","e","g","e">>, <<"d","e","g","r","e","e">>,
    <<"d","i","p","l","o","m","a">>, <<"e","d","u","c","a","t","e","d">>,
    <<"e","d","u","c","a","t","i","o","n">>, <<"i","l","l","i","t","e","r","a","t","e">>,
    <<"l","i","t","e","r","a","c","y">>, <<"l","i","t","e","r","a","t","e">>,
    <<"p","r","e","-","p","r","i","m","a","r","y">>, <<"s","c","h","o","o","l">>,
    <<"s","c","h","o","o","l","i","n","g">>, <<"u","n","i","v","e","r","s","i","t","y">> }

education_weak ==
  { <<"r","a","t","e">> }

occupation_strong ==
  { <<"a","g","r","i","c","u","l","t","u","r","a","l">>, <<"c","a","s","h">>,
    <<"c","u","l","t","i","v","a","t","o","r">>, <<"e","m","p","l","o","y","e","d">>,
    <<"e","m","p","l","o","y","m","e","n","t">>, <<"e","n","g","a","g","e","d">>,
    <<"i","n","d","u","s","t","r","i","e","s">>, <<"i","n","d","u","s","t","r","y">>,
    <<"j","o","b">>, <<"j","o","b","s">>, <<"l","a","b","o","u","r","e","r">>,
    <<"m","a","i","n">>, <<"m","a","r","g","i","n","a","l">>,
    <<"n","o","n","-","w","o","r","k","e","r">>, <<"p","a","i","d">>,
    <<"p","a","r","t","i","c","i","p","a","t","i","o","n">>,
    <<"u","n","e","m","p","l","o","y","e","d">>, <<"w","o","r","k">>,
    <<"w","o","r","k","e","r">>, <<"w","o","r","k","f","o","r","c","e">>,
    <<"w","o","r","k","i","n","g">> }

occupation_weak == {}

health_strong ==
  { <<"a","c","i","d">>, <<"a","d","v","i","c","e">>, <<"a","i","d","s">>,
    <<"a","l","c","o","h","o","l">>, <<"a","n","a","e","m","i","a">>,
    <<"a","n","a","e","m","i","c">>, <<"a","n","t","e","n","a","t","a","l">>,
    <<"a","r","i">>, <<"a","u","t","h","o","r","i","t","y">>,
    <<"b","a","n","k"," ","a","c","c","o","u","n","t">>, <<"b","i","r","t","h">>,
    <<"b","i","r","t","h","s">>, <<"b","l","o","o","d"," ","p","r","e","s","s","u","r","e">>,
    <<"b","l","o","o","d"," ","s","u","g","a","r">>, <<"b","m","i">>,
    <<"b","r","e","a","s","t","f","e","d">>,
    <<"b","r","e","a","s","t","f","e","e","d","i","n","g">>,
    <<"c","-","s","e","c","t","i","o","n">>, <<"c","a","n","c","e","r">>,
    <<"c","l","e","a","n"," ","f","u","e","l">>, <<"c","o","n","d","o","m">>,
    <<"c","o","o","k","i","n","g"," ","f","u","e","l">>, <<"c","r","i","m","e">>,
    <<"d","e","c","i","s","i","o","n">>, <<"d","e","l","i","v","e","r","i","e","s">>,
    <<"d","e","l","i","v","e","r","y">>, <<"d","i","a","b","e","t","e","s">>,
    <<"d","i","a","r","r","h","o","e","a">>, <<"d","i","e","t">>,
    <<"d","i","s","e","a","s","e">>,
    <<"d","r","i","n","k","i","n","g"," ","w","a","t","e","r">>,
    <<"e","l","e","c","t","r","i","c","i","t","y">>, <<"f","e","r","t","i","l","i","t","y">>,
    <<"f","e","v","e","r">>, <<"f","o","l","i","c">>, <<"h","e","a","l","t","h">>,
    <<"h","i","p">>, <<"h","i","v">>, <<"h","o","u","s","e">>,
    <<"h","y","g","i","e","n","i","c">>, <<"h","y","p","e","r","t","e","n","s","i","o","n">>,
    <<"i","n","s","u","r","a","n","c","e">>, <<"i","n","t","e","r","n","e","t">>,
    <<"i","o","d","i","z","e","d">>, <<"k","n","o","w","l","e","d","g","e">>,
    <<"l","a","n","d">>, <<"m","a","r","r","i","a","g","e">>,
    <<"m","a","r","r","i","e","d">>, <<"m","e","n","s","t","r","u","a","t","i","o","n">>,
    <<"m","o","b","i","l","e"," ","p","h","o","n","e">>,
    <<"m","o","r","t","a","l","i","t","y">>, <<"n","u","t","r","i","t","i","o","n">>,
    <<"o","b","e","s","e">>, <<"o","b","e","s","i","t","y">>,
    <<"o","v","e","r","w","e","i","g","h","t">>, <<"o","w","n","i","n","g">>,
    <<"p","o","s","t","n","a","t","a","l">>, <<"p","r","e","g","n","a","n","c","y">>,
    <<"p","r","e","g","n","a","n","t">>, <<"r","e","g","i","s","t","e","r","e","d">>,
    <<"r","e","g","i","s","t","r","a","t","i","o","n">>, <<"s","a","l","t">>,
    <<"s","a","n","i","t","a","t","i","o","n">>, <<"s","c","r","e","e","n","i","n","g">>,
    <<"s","m","o","k","i","n","g">>, <<"s","t","u","n","t","e","d">>,
    <<"s","t","u","n","t","i","n","g">>, <<"t","o","b","a","c","c","o">>,
    <<"t","o","i","l","e","t">>, <<"t","r","e","a","t","m","e","n","t">>,
    <<"u","n","d","e","r","w","e","i","g","h","t">>,
    <<"v","a","c","c","i","n","a","t","e","d">>,
    <<"v","a","c","c","i","n","a","t","i","o","n">>, <<"v","a","c","c","i","n","e">>,
    <<"v","a","c","c","i","n","e","s">>, <<"v","i","o","l","e","n","c","e">>,
    <<"v","i","t","a","m","i","n">>, <<"w","a","i","s","t">>, <<"w","a","s","t","e","d">>,
    <<"w","a","s","t","i","n","g">>, <<"w","a","t","e","r">> }

health_weak == {}

age_strong ==
  { <<"0","-","6">>, <<"1","5","-","4","9">>, <<"6","0","+">>, <<"a","d","u","l","t">>,
    <<"a","d","u","l","t","s">>, <<"a","g","e">>, <<"c","h","i","l","d","r","e","n">>,
    <<"e","l","d","e","r","l","y">>, <<"s","e","n","i","o","r","s">>,
    <<"t","e","e","n","a","g","e","r","s">>, <<"w","o","r","k","i","n","g"," ","a","g","e">>,
    <<"y","o","u","t","h">> }

age_weak == {}

agriculture_strong ==
  { <<"a","g","r","i","c","u","l","t","u","r","a","l">>,
    <<"a","g","r","i","c","u","l","t","u","r","e">>, <<"a","r","e","a">>,
    <<"b","a","j","r","a">>, <<"b","a","r","l","e","y">>, <<"c","e","r","e","a","l","s">>,
    <<"c","o","t","t","o","n">>, <<"c","r","o","p">>, <<"c","r","o","p","s">>,
    <<"d","a","f","w">>, <<"f","a","r","m","i","n","g">>,
    <<"f","o","o","d","g","r","a","i","n","s">>, <<"g","r","a","m">>,
    <<"g","r","o","u","n","d","n","u","t">>, <<"h","a","r","v","e","s","t">>,
    <<"h","a","r","v","e","s","t","i","n","g">>, <<"h","e","c","t","a","r","e">>,
    <<"h","e","c","t","a","r","e","s">>, <<"j","o","w","a","r">>, <<"j","u","t","e">>,
    <<"l","e","n","t","i","l">>, <<"m","a","i","z","e">>, <<"m","e","t","r","i","c">>,
    <<"m","i","l","l","e","t">>, <<"m","i","l","l","e","t","s">>, <<"n","u","t","r","i">>,
    <<"o","i","l","s","e","e","d","s">>, <<"p","r","o","d","u","c","t","i","o","n">>,
    <<"p","u","l","s","e","s">>, <<"r","a","g","i">>, <<"r","i","c","e">>,
    <<"s","o","w","i","n","g">>, <<"s","o","w","n">>, <<"s","o","y","b","e","a","n">>,
    <<"s","u","g","a","r","c","a","n","e">>, <<"t","o","n","n","e","s">>, <<"t","u","r">>,
    <<"w","h","e","a","t">>, <<"y","i","e","l","d">> }

agriculture_weak ==
  { <<"g","r","o","w","t","h">>, <<"n","o","r","m","a","l">>, <<"s","e","a","s","o","n">> }


(***************************************************************************)
(* Configuration of the service                                            *)
(***************************************************************************)
MAX_OPTIONAL_TABLES == 6

CORE_TABLES == {"regions", "tru", "languages", "religions", "age_groups"}

IntentNames == <<"population", "religion", "language", "education",
                 "occupation", "health", "age", "agriculture">>

VARIABLES
  LANGUAGE_KEYWORDS,   \* keywords loaded from languages.csv at start-up
  RELIGION_KEYWORDS,   \* keywords loaded from religions.csv at start-up
  AGE_GROUP_KEYWORDS,  \* keywords loaded from age_groups.csv at start-up
  ALL_COLUMN_NAMES,    \* column names loaded from database_schema.json at start-up
  FULL_SCHEMA_CACHE,   \* table name -> columns, loaded from database_schema.json
  file_schema,         \* start-up: database_schema.json as found
  table_pos,           \* start-up: position of the loop over the tables
  cols_list,           \* start-up: cols_list of the table being read
  schema_string,       \* _call_remote_llm: schema_string
  prompts,             \* the prompts posted to the generation backend, in order
  http_status,         \* status code of the answer to a generate request
  question,            \* the question of the request
  stage,               \* position of the request
  intents,             \* result of detect_intents
  tables,              \* result of select_tables
  raw_sql,             \* the text a generation backend or a client came up with
  generated,           \* whether sql_query went through _call_remote_llm
  sql_query,           \* request.sql_query of /execute-sql
  normalized,          \* execute_sql: current_sql after sanitize_dot_columns
  current_sql,         \* execute_sql: current_sql
  healed,              \* execute_sql: healed
  attempt,             \* execute_sql: the loop variable
  status,              \* execute_sql: status
  result,              \* execute_sql: result
  sent,                \* the statements the engine was given, in order
  raised,              \* str(e) of every failed attempt, in order
  committed,           \* the statements whose transaction the engine committed
  core_tables,         \* the set object CORE_TABLES of the running process
  rule_adds,           \* the set objects rule["adds"] of RULES, by position
  pool                 \* the requests a worker is handling at the same time

startupVars == <<LANGUAGE_KEYWORDS, RELIGION_KEYWORDS, AGE_GROUP_KEYWORDS,
                 ALL_COLUMN_NAMES, FULL_SCHEMA_CACHE>>

loaderVars == <<file_schema, table_pos, cols_list>>

generatorVars == <<schema_string, prompts, http_status>>

selectorVars == <<question, intents, tables>>

executorVars == <<raw_sql, generated, sql_query, normalized, current_sql,
                  healed, attempt, status, result, sent, raised, committed>>

concurrentVars == <<core_tables, rule_adds, pool>>

vars == <<startupVars, loaderVars, generatorVars, selectorVars, executorVars, stage,
          concurrentVars>>

\* INTENTS[intent]["strong"]
Strong(intent) ==
  CASE intent = "population"  -> population_strong
    [] intent = "religion"    -> RELIGION_KEYWORDS \cup religion_strong
    [] intent = "language"    -> LANGUAGE_KEYWORDS \cup language_strong
    [] intent = "education"   -> education_strong
    [] intent = "occupation"  -> occupation_strong
    [] intent = "health"      -> health_strong
    [] intent = "age"         -> AGE_GROUP_KEYWORDS \cup age_strong
    [] intent = "agriculture" -> agriculture_strong

\* INTENTS[intent]["weak"]
Weak(intent) ==
  CASE intent = "population"  -> population_weak
    [] intent = "religion"    -> religion_weak
    [] intent = "language"    -> language_weak
    [] intent = "education"   -> education_weak
    [] intent = "occupation"  -> occupation_weak
    [] intent = "health"      -> health_weak
    [] intent = "age"         -> age_weak
    [] intent = "agriculture" -> agriculture_weak

INTENTS == {IntentNames[i] : i \in 1..Len(IntentNames)}

RULES ==
  << [intent |-> "religion",    adds |-> {"religion_stats"}],
     [intent |-> "language",    adds |-> {"language_stats"}],
     [intent |-> "population",  adds |-> {"population_stats"}],
     [intent |-> "health",      adds |-> {"healthcare_stats"}],
     [intent |-> "age",         adds |-> {"population_stats"}],
     [intent |-> "occupation",  adds |-> {"occupation_stats", "education_stats"}],
     [intent |-> "education",   adds |-> {"education_stats", "religion_stats"}],
     [intent |-> "agriculture", adds |-> {"crop_stats"}] >>

\* RULES of the evaluation-data generator
EVAL_RULES ==
  << [intent |-> "religion",    adds |-> {"religion_stats"}],
     [intent |-> "language",    adds |-> {"language_stats"}],
     [intent |-> "population",  adds |-> {"population_stats"}],
     [intent |-> "health",      adds |-> {"healthcare_stats"}],
     [intent |-> "age",         adds |-> {"population_stats"}],
     [intent |-> "occupation",
      adds |-> {"occupation_stats", "healthcare_stats", "education_stats"}],
     [intent |-> "education",
      adds |-> {"education_stats", "religion_stats", "healthcare_stats"}],
     [intent |-> "agriculture", adds |-> {"crop_stats"}] >>

(***************************************************************************)
(* Intent detection and table selection                                    *)
(***************************************************************************)
\* StrongPass comparing the whole question with a term
StrongPass_WholeQuestion(q) == {i \in INTENTS : q \in Strong(i)}

\* the strong pass of detect_intents: substring search
StrongPass(q) ==
  LET found == Substrings(q) IN {i \in INTENTS : Strong(i) \cap found # {}}

\* WeakPass without the  if active:  guard
WeakPass_Unguarded(q, active) ==
  active \cup {i \in INTENTS : Weak(i) \cap Substrings(q) # {}}

\* the weak pass of detect_intents, run when the strong pass found something
WeakPass(q, active) ==
  IF active # {}
  THEN LET found == Substrings(q)
       IN  active \cup {i \in INTENTS : Weak(i) \cap found # {}}
  ELSE active

detect_intents(q) == WeakPass(Lower(q), StrongPass(Lower(q)))

\* the strong pass of the evaluation generator: whole-word search
EvalStrongPass(q) ==
  LET found == WordSubstrings(q) IN {i \in INTENTS : Strong(i) \cap found # {}}

eval_detect_intents(q) == WeakPass(Lower(q), EvalStrongPass(Lower(q)))

\* ApplyRules with the test of the loop inverted
ApplyRules_Inverted(rules, active) ==
  CORE_TABLES \cup
    UNION {rules[r].adds : r \in {k \in 1..Len(rules) : rules[k].intent \notin active}}

\* tables after the loop over the rules
ApplyRules(rules, active) ==
  CORE_TABLES \cup
    UNION {rules[r].adds : r \in {k \in 1..Len(rules) : rules[k].intent \in active}}

\* Truncate with the slice one too long
Truncate_OffByOne(optional) ==
  IF Cardinality(optional) > MAX_OPTIONAL_TABLES + 1
  THEN {s \in SUBSET optional : Cardinality(s) = MAX_OPTIONAL_TABLES + 1}
  ELSE {optional}

\* Truncate with the slice one too short
Truncate_OneShort(optional) ==
  IF Cardinality(optional) > MAX_OPTIONAL_TABLES - 1
  THEN {s \in SUBSET optional : Cardinality(s) = MAX_OPTIONAL_TABLES - 1}
  ELSE {optional}

\* set(list(optional)[:MAX_OPTIONAL_TABLES]): the order of list(set) is the
\* hash order of the process, so any subset of that size can be kept
Truncate(optional) ==
  IF Cardinality(optional) > MAX_OPTIONAL_TABLES
  THEN {s \in SUBSET optional : Cardinality(s) = MAX_OPTIONAL_TABLES}
  ELSE {optional}

\* SelectFrom returning the optional tables without the core set
SelectFrom_DropCore(active) ==
  IF "agriculture" \in active
  THEN {{"crop_stats"}}
  ELSE Truncate(ApplyRules(RULES, active) \ CORE_TABLES)

\* SelectFrom without the early return for agriculture
SelectFrom_NoIsolation(active) ==
  {CORE_TABLES \cup o : o \in Truncate(ApplyRules(RULES, active) \ CORE_TABLES)}

\* the possible results of select_tables for intents `active`
SelectFrom(active) ==
  IF "agriculture" \in active
  THEN {{"crop_stats"}}
  ELSE {CORE_TABLES \cup o : o \in Truncate(ApplyRules(RULES, active) \ CORE_TABLES)}

select_tables(q) == SelectFrom(detect_intents(q))

\* select_tables of the evaluation generator: no isolation of agriculture
EvalSelectFrom(active) ==
  {CORE_TABLES \cup o : o \in Truncate(ApplyRules(EVAL_RULES, active) \ CORE_TABLES)}

eval_select_tables(q) == EvalSelectFrom(eval_detect_intents(Lower(q)))

(***************************************************************************)
(* Table selection of the training-data generator                          *)
(***************************************************************************)
\* INTENT_TERMS of the training-data generator, in the order of the dict
INTENT_TERMS ==
  << [intent |-> "population",
     strong |-> { <<"c","o","u","n","t">>, <<"l","i","v","e">>, <<"l","i","v","i","n","g">>,
                 <<"p","e","o","p","l","e">>, <<"p","e","r","s","o","n","s">>,
                 <<"p","o","p","u","l","a","t","i","o","n">>, <<"t","o","t","a","l">> },
     weak   |-> { <<"d","i","f","f","e","r","e","n","c","e">>, <<"d","o","u","b","l","e">>,
                 <<"g","a","p">>, <<"h","i","g","h","e","r">>, <<"l","a","r","g","e","s","t">>,
                 <<"l","e","a","s","t">>, <<"l","e","s","s">>, <<"l","o","w","e","r">>,
                 <<"m","o","r","e">>, <<"m","o","s","t">>, <<"p","e","r","c","e","n","t">>,
                 <<"p","e","r","c","e","n","t","a","g","e">>, <<"r","a","t","i","o">>,
                 <<"s","m","a","l","l","e","s","t">>, <<"t","r","i","p","l","e">>,
                 <<"t","w","i","c","e">> }],
     [intent |-> "religion",
     strong |-> { <<"b","u","d","d","h","i","s","t">>, <<"c","h","r","i","s","t","i","a","n">>,
                 <<"c","o","m","m","u","n","i","t","y">>, <<"f","a","i","t","h">>,
                 <<"h","i","n","d","u">>, <<"j","a","i","n">>, <<"m","u","s","l","i","m">>,
                 <<"p","a","r","s","i">>, <<"r","e","l","i","g","i","o","n">>,
                 <<"r","e","l","i","g","i","o","u","s">>, <<"s","i","k","h">>,
                 <<"z","o","r","o","a","s","t","r","i","a","n">> }
               \cup RELIGION_KEYWORDS,
     weak   |-> { <<"c","o","m","m","u","n","i","t","y">>, <<"f","a","i","t","h">> }],
     [intent |-> "language",
     strong |-> { <<"l","a","n","g","u","a","g","e">>, <<"l","a","n","g","u","a","g","e","s">>,
                 <<"l","i","n","g","u","i","s","t","i","c">>,
                 <<"m","o","t","h","e","r"," ","t","o","n","g","u","e">>,
                 <<"s","p","e","a","k","e","r","s">>, <<"s","p","o","k","e","n">> }
               \cup LANGUAGE_KEYWORDS,
     weak   |-> { <<"l","i","n","g","u","i","s","t","i","c">> }],
     [intent |-> "education",
     strong |-> { <<"e","d","u","c","a","t","e","d">>, <<"e","d","u","c","a","t","i","o","n">>,
                 <<"e","d","u","c","a","t","i","o","n"," ","l","e","v","e","l">>,
                 <<"i","l","l","i","t","e","r","a","t","e">>, <<"l","i","t","e","r","a","c","y">>,
                 <<"l","i","t","e","r","a","c","y"," ","r","a","t","e">>,
                 <<"l","i","t","e","r","a","t","e">>, <<"s","c","h","o","o","l","i","n","g">> },
     weak   |-> { <<"l","e","v","e","l">>, <<"r","a","t","e">> }],
     [intent |-> "occupation",
     strong |-> { <<"e","m","p","l","o","y","e","d">>, <<"e","m","p","l","o","y","m","e","n","t">>,
                 <<"n","o","n"," ","w","o","r","k","e","r","s">>,
                 <<"n","o","n","-","w","o","r","k","e","r">>,
                 <<"p","a","r","t","i","c","i","p","a","t","i","o","n">>,
                 <<"u","n","e","m","p","l","o","y","e","d">>, <<"w","o","r","k">>,
                 <<"w","o","r","k","e","r">>, <<"w","o","r","k","e","r","s">>,
                 <<"w","o","r","k","f","o","r","c","e">>, <<"w","o","r","k","i","n","g">> },
     weak   |-> { <<"p","a","r","t","i","c","i","p","a","t","i","o","n">> }],
     [intent |-> "health",
     strong |-> { <<"a","n","a","e","m","i","a">>, <<"b","i","r","t","h">>,
                 <<"b","i","r","t","h","s">>, <<"d","e","a","t","h">>,
                 <<"d","e","a","t","h","s">>, <<"d","i","a","b","e","t","e","s">>,
                 <<"d","i","s","e","a","s","e">>, <<"f","e","r","t","i","l","i","t","y">>,
                 <<"h","e","a","l","t","h">>, <<"i","l","l","n","e","s","s">>,
                 <<"m","o","r","t","a","l","i","t","y">>, <<"n","u","t","r","i","t","i","o","n">>,
                 <<"v","a","c","c","i","n","a","t","i","o","n">> },
     weak   |-> {}],
     [intent |-> "age",
     strong |-> { <<"0","-","6">>, <<"a","d","u","l","t">>, <<"a","d","u","l","t","s">>,
                 <<"a","g","e">>, <<"a","g","e","d">>, <<"c","h","i","l","d">>,
                 <<"c","h","i","l","d","r","e","n">>, <<"e","l","d","e","r","l","y">>,
                 <<"o","l","d"," ","a","g","e">>, <<"s","e","n","i","o","r">>,
                 <<"t","e","e","n">>, <<"t","e","e","n","a","g","e","r","s">>,
                 <<"w","o","r","k","i","n","g"," ","a","g","e">>, <<"y","o","u","t","h">> }
               \cup AGE_GROUP_KEYWORDS,
     weak   |-> { <<"g","r","o","u","p">> }] >>

\* RULES of the training-data generator; requires is {} where the rule has none
TEMPLATE_RULES ==
  << [intent |-> "religion",   adds |-> {"religion_stats"},   requires |-> {}],
     [intent |-> "language",   adds |-> {"language_stats"},   requires |-> {}],
     [intent |-> "population", adds |-> {"population_stats"}, requires |-> {}],
     [intent |-> "education",  adds |-> {"education_stats"},  requires |-> {"religion"}],
     [intent |-> "occupation", adds |-> {"occupation_stats"}, requires |-> {"religion"}],
     [intent |-> "health",     adds |-> {"healthcare_stats"}, requires |-> {"religion"}],
     [intent |-> "age",        adds |-> {"age_groups"},       requires |-> {}] >>

\* one turn of the detection loop: strong terms, else weak terms when an
\* earlier turn has found an intent
TemplateStep(found, group, active) ==
  IF group.strong \cap found # {}
  THEN active \cup {group.intent}
  ELSE IF group.weak \cap found # {} /\ active # {}
       THEN active \cup {group.intent}
       ELSE active

RECURSIVE TemplateDetectFrom(_, _, _, _)
\* the detection loop of select_tables over the groups `terms` from turn k
TemplateDetectFrom(found, terms, k, active) ==
  IF k > Len(terms) THEN active
  ELSE TemplateDetectFrom(found, terms, k + 1, TemplateStep(found, terms[k], active))

TemplateDetect(q) == TemplateDetectFrom(Substrings(q), INTENT_TERMS, 1, {})

\* tables after the loop over the rules, a rule with unmet requires skipped
TemplateApplyRules(active) ==
  CORE_TABLES \cup
    UNION {TEMPLATE_RULES[r].adds :
             r \in {k \in 1..Len(TEMPLATE_RULES) :
                      /\ TEMPLATE_RULES[k].intent \in active
                      /\ TEMPLATE_RULES[k].requires \subseteq active}}

\* the possible results of select_tables of the training-data generator
template_select_tables(q) ==
  {CORE_TABLES \cup o :
     o \in Truncate(TemplateApplyRules(TemplateDetect(Lower(q))) \ CORE_TABLES)}

(***************************************************************************)
(* SQL Normalizer                                                          *)
(***************************************************************************)
\* where the match of \b([a-zA-Z0-9_]+)\.([a-zA-Z0-9_]+\.[0-9]+)\b that starts
\* at i ends (0: no match at i)
DotColumnEnd(s, i) ==
  LET dot1 == Run1(s, i, WordChars)
      name == Lit(s, dot1, <<".">>)
      dot2 == Run1(s, name, WordChars)
      num  == Lit(s, dot2, <<".">>)
      e    == Run1(s, num, DigitChars)
  IN  IF BoundaryBefore(s, i) /\ e # 0 /\ BoundaryBefore(s, e) THEN e ELSE 0

\* the replacement \1."\2" of the match that starts at i
DotColumnQuoted(s, i) ==
  LET dot1 == RunEnd(s, i, WordChars)
  IN  SubSeq(s, i, dot1) \o <<"\"">> \o SubSeq(s, dot1 + 1, DotColumnEnd(s, i) - 1) \o <<"\"">>

sanitize_dot_columns(sql) ==
  SubFrom(sql,
          [p \in 1..Len(sql) |-> DotColumnEnd(sql, p)],
          [p \in 1..Len(sql) |-> DotColumnQuoted(sql, p)],
          1)

\* what _call_remote_llm does to the text of the generation backend
NormalizeGenerated(text) ==
  LET unfenced == Strip(Replace(Replace(text, <<BackQuote,BackQuote,BackQuote,"s","q","l">>, <<>>), <<BackQuote,BackQuote,BackQuote>>, <<>>))
      first    == IF Contains(unfenced, <<";">>)
                  THEN BeforeFirst(unfenced, ";") \o <<";">>
                  ELSE unfenced
  IN  sanitize_dot_columns(first)


(***************************************************************************)
(* Heuristic Patcher                                                       *)
(***************************************************************************)
\* FIX 0: a BIGINT keyword is dropped
Fix0(s) ==
  IF Contains(s, <<"B","I","G","I","N","T">>)
  THEN Replace(Replace(s, <<" ","B","I","G","I","N","T"," ">>, <<" ">>), <<"B","I","G","I","N","T"," ">>, <<" ">>)
  ELSE s

\* FIX 1: the table `replacements`, in the order of the dict
replacements ==
  << <<<<"i","l","l","i","t","e","r","a","t","e","_","p","e","r","s","o","n"," ">>, <<"i","l","l","i","t","e","r","a","t","e","_","p","e","r","s","o","n","s"," ">>>>,
     <<<<"i","l","l","i","t","e","r","a","t","e","_","p","e","r","s","o","n",",">>, <<"i","l","l","i","t","e","r","a","t","e","_","p","e","r","s","o","n","s",",">>>>,
     <<<<"i","l","l","i","t","e","r","a","t","e","_","p","e","r","s","o","n",")">>, <<"i","l","l","i","t","e","r","a","t","e","_","p","e","r","s","o","n","s",")">>>>,
     <<<<"s","c","h","e","d","u","l","e","d","_","c","a","s","t","e","s","_","p","o","p","u","l","a","t","i","o","n","_","p","e","r","s","o","n">>, <<"s","c","h","e","d","u","l","e","d","_","c","a","s","t","e","s","_","p","e","r","s","o","n">>>>,
     <<<<"s","c","h","e","d","u","l","e","d","_","t","r","i","b","e","s","_","p","o","p","u","l","a","t","i","o","n","_","p","e","r","s","o","n">>, <<"s","c","h","e","d","u","l","e","d","_","t","r","i","b","e","s","_","p","e","r","s","o","n">>>>,
     <<<<"l","a","n","g","u","a","g","e","_","n","a","m","e">>, <<"n","a","m","e">>>> >>

RECURSIVE Fix1From(_, _)
Fix1From(s, k) ==
  IF k > Len(replacements) THEN s
  ELSE Fix1From(IF Contains(s, replacements[k][1])
                THEN Replace(s, replacements[k][1], replacements[k][2])
                ELSE s,
                k + 1)

Fix1(s) == Fix1From(s, 1)

\* FIX 2: the table column_map, in the order of the dict
column_map ==
  << <<<<"t","o","t","_","p">>, <<"t","o","t","a","l","_","p","e","r","s","o","n">>>>,
     <<<<"p","_","l","i","t">>, <<"l","i","t","e","r","a","t","e","s","_","p","e","r","s","o","n">>>>,
     <<<<"p","_","i","l","l">>, <<"i","l","l","i","t","e","r","a","t","e","_","p","e","r","s","o","n","s">>>>,
     <<<<"n","o","_","h","h">>, <<"n","o","_","o","f","_","h","o","u","s","e","h","o","l","d","s">>>>,
     <<<<"t","o","t","_","m">>, <<"t","o","t","a","l","_","m","a","l","e">>>>,
     <<<<"t","o","t","_","f">>, <<"t","o","t","a","l","_","f","e","m","a","l","e">>>>,
     <<<<"p","_","0","6">>, <<"p","o","p","u","l","a","t","i","o","n","_","i","n","_","t","h","e","_","a","g","e","_","g","r","o","u","p","_","0","6","_","p","e","r","s","o","n">>>> >>

\* the three replace calls of one entry of column_map
MapColumn(s, bad_col, good_col) ==
  Replace(Replace(Replace(s, <<".">> \o bad_col, <<".">> \o good_col),
                  <<" ">> \o bad_col, <<" ">> \o good_col),
          <<",">> \o bad_col, <<",">> \o good_col)

RECURSIVE Fix2From(_, _)
Fix2From(s, k) ==
  IF k > Len(column_map) THEN s
  ELSE Fix2From(MapColumn(s, column_map[k][1], column_map[k][2]), k + 1)

\* Fix2Applies without the test for religion_stats
Fix2Applies_NoReligionTest(s) == Contains(s, <<"e","d","u","c","a","t","i","o","n","_","s","t","a","t","s">>)

\* the test that guards FIX 2
Fix2Applies(s) == Contains(s, <<"e","d","u","c","a","t","i","o","n","_","s","t","a","t","s">>) /\ ~Contains(s, <<"r","e","l","i","g","i","o","n","_","s","t","a","t","s">>)

Fix2(s) == IF Fix2Applies(s) THEN Fix2From(s, 1) ELSE s

\* where the match of \b<kw>\s+state_name\s+ILIKE\s+'[^']+' (IGNORECASE) that
\* starts at i ends; low is Lower(s) and kw is in lower case
StateFilterEnd(s, low, i, kw) ==
  LET a == Lit(low, i, kw)
      b == Lit(low, Run1(s, a, SpaceChars), <<"s","t","a","t","e","_","n","a","m","e">>)
      c == Lit(low, Run1(s, b, SpaceChars), <<"i","l","i","k","e">>)
      d == Lit(s, Run1(s, c, SpaceChars), <<"'">>)
      e == Lit(s, RunNot1(s, d, "'"), <<"'">>)
  IN  IF BoundaryBefore(s, i) THEN e ELSE 0

\* re.sub of the state_name filter that follows kw by new
SubStateFilter(s, kw, new) ==
  LET low == Lower(s)
  IN  SubFrom(s,
              [p \in 1..Len(s) |-> StateFilterEnd(s, low, p, kw)],
              [p \in 1..Len(s) |-> new],
              1)

\* FIX 3: state_name filters and the "Rice" identifier on crop_stats
Fix3(s) ==
  IF Contains(s, <<"c","r","o","p","_","s","t","a","t","s">>)
  THEN Replace(SubStateFilter(SubStateFilter(s, <<"a","n","d">>, <<>>), <<"w","h","e","r","e">>, <<"W","H","E","R","E"," ","1","=","1">>),
               <<"S","E","L","E","C","T"," ","\"","R","i","c","e","\"">>, <<"S","E","L","E","C","T"," ","'","R","i","c","e","'">>)
  ELSE s

\* the match of JOIN\s+languages\s+(\w+)\s+ON\s+(\w+) (IGNORECASE) at i:
\* the positions of group 1, of group 2 and the position after the match
JoinHead(s, low, i) ==
  LET a == Lit(low, i, <<"j","o","i","n">>)
      g1 == Run1(s, Lit(low, Run1(s, a, SpaceChars), <<"l","a","n","g","u","a","g","e","s">>), SpaceChars)
      e1 == Run1(s, g1, WordChars)
      g2 == Run1(s, Lit(low, Run1(s, e1, SpaceChars), <<"o","n">>), SpaceChars)
      e2 == Run1(s, g2, WordChars)
  IN  [g1 |-> g1, e1 |-> e1, g2 |-> g2, e2 |-> e2]

\* \s*=\s*\1 read at position i
EqualsAlias(s, low, i, h) ==
  LET eq == Lit(s, Run0(s, i, SpaceChars), <<"=">>)
  IN  Lit(low, Run0(s, eq, SpaceChars), SubSeq(low, h.g1, h.e1 - 1))

\* the rest of pattern_a after the head h: \.tru_id\s*=\s*\1\.tru_id
PatternATail(s, low, h) ==
  IF h.e2 = 0 THEN 0
  ELSE Lit(low, EqualsAlias(s, low, Lit(low, h.e2, <<".","t","r","u","_","i","d">>), h), <<".","t","r","u","_","i","d">>)

\* where the match of pattern_a that starts at i ends (0: no match at i)
PatternAEnd(s, low, i) == PatternATail(s, low, JoinHead(s, low, i))

\* the rest of pattern_b after the head h: \.language_id\s*=\s*\1\.id
PatternBTail(s, low, h) ==
  IF h.e2 = 0 THEN 0
  ELSE Lit(low, EqualsAlias(s, low, Lit(low, h.e2, <<".","l","a","n","g","u","a","g","e","_","i","d">>), h), <<".","i","d">>)

\* where the match of pattern_b that starts at i ends (0: no match at i)
PatternBEnd(s, low, i) == PatternBTail(s, low, JoinHead(s, low, i))

\* the rest of pattern_c after the head h: \.[\w]+\s*=\s*\1\.state
PatternCTail(s, low, h) ==
  IF h.e2 = 0 THEN 0
  ELSE Lit(low,
           EqualsAlias(s, low, Run1(s, Lit(s, h.e2, <<".">>), WordChars), h),
           <<".","s","t","a","t","e">>)

\* where the match of pattern_c that starts at i ends (0: no match at i)
PatternCEnd(s, low, i) == PatternCTail(s, low, JoinHead(s, low, i))

\* the text bridge_replacer returns for match.group(1) and match.group(2)
BridgeText(l_alias, stats_alias) ==
  LET bridge_alias == <<"l","s","_">> \o l_alias
      join_condition ==
        stats_alias \o <<".","s","t","a","t","e"," ","="," ">> \o bridge_alias \o <<".","s","t","a","t","e">> \o
        (IF stats_alias # <<"r">>
         THEN <<" ","A","N","D"," ">> \o stats_alias \o <<".","t","r","u","_","i","d"," ","="," ">> \o bridge_alias \o <<".","t","r","u","_","i","d">>
         ELSE <<>>)
  IN  <<"J","O","I","N"," ","l","a","n","g","u","a","g","e","_","s","t","a","t","s"," ">> \o bridge_alias \o <<" ","O","N"," ">> \o join_condition \o
      <<" ","J","O","I","N"," ","l","a","n","g","u","a","g","e","s"," ">> \o l_alias \o <<" ","O","N"," ">> \o bridge_alias \o
      <<".","l","a","n","g","u","a","g","e","_","i","d"," ","="," ">> \o l_alias \o <<".","i","d">>

\* bridge_replacer for the match with the head h
BridgeFor(s, h) == BridgeText(SubSeq(s, h.g1, h.e1 - 1), SubSeq(s, h.g2, h.e2 - 1))

\* bridge_replacer for the match that starts at i
bridge_replacer(s, low, i) == BridgeFor(s, JoinHead(s, low, i))

SubPatternA(s) ==
  LET low == Lower(s)
  IN  SubFrom(s, [p \in 1..Len(s) |-> PatternAEnd(s, low, p)],
              [p \in 1..Len(s) |-> bridge_replacer(s, low, p)], 1)

SubPatternB(s) ==
  LET low == Lower(s)
  IN  SubFrom(s, [p \in 1..Len(s) |-> PatternBEnd(s, low, p)],
              [p \in 1..Len(s) |-> bridge_replacer(s, low, p)], 1)

SubPatternC(s) ==
  LET low == Lower(s)
  IN  SubFrom(s, [p \in 1..Len(s) |-> PatternCEnd(s, low, p)],
              [p \in 1..Len(s) |-> bridge_replacer(s, low, p)], 1)

\* the test that guards FIX 4
Fix4Applies(s) == Contains(s, <<"l","a","n","g","u","a","g","e","s">>) /\ ~Contains(s, <<"l","a","n","g","u","a","g","e","_","s","t","a","t","s">>)

\* the three guarded substitutions of FIX 4
Fix4A(s) == IF Contains(s, <<".","t","r","u","_","i","d">>) THEN SubPatternA(s) ELSE s

Fix4B(s) == IF Contains(s, <<".","l","a","n","g","u","a","g","e","_","i","d">>) THEN SubPatternB(s) ELSE s

Fix4C(s) == IF Contains(s, <<".","s","t","a","t","e">>) THEN SubPatternC(s) ELSE s

\* FIX 4: a join of languages on a key it does not have goes through language_stats
Fix4(s) == IF Fix4Applies(s) THEN Fix4C(Fix4B(Fix4A(s))) ELSE s

\* TooLong with the guard one character early
TooLong_OneEarly(sql) == Len(sql) >= 2000

\* the safety guard: len(sql_query) > 2000
TooLong(sql) == Len(sql) > 2000

patch_broken_sql(sql) ==
  IF TooLong(sql) THEN sql
  ELSE Fix4(Fix3(Fix2(Fix1(Fix0(sql)))))


(***************************************************************************)
(* Error-driven healing                                                    *)
(***************************************************************************)
\* the characters of the model in code-point order, for string comparison
CodePoints ==
  <<"	","\n"," ","\"","%","'","(",")","*","+",",","-",".","0","1","2","3","4","5","6","7","8","9",":",";","=","?","A","B","C","D","E","F","G","H","I","J","K","L","M","N","O","P","Q","R","S","T","U","V","W","X","Y","Z","[","]","_","a","b","c","d","e","f","g","h","i","j","k","l","m","n","o","p","q","r","s","t","u","v","w","x","y","z">>

Ord(c) == CHOOSE i \in 1..Len(CodePoints) : CodePoints[i] = c

RECURSIVE StrLess(_, _)
\* x < y for Python strings
StrLess(x, y) ==
  IF y = <<>> THEN FALSE
  ELSE IF x = <<>> THEN TRUE
  ELSE IF x[1] # y[1] THEN Ord(x[1]) < Ord(y[1])
  ELSE StrLess(Tail(x), Tail(y))

RECURSIVE CommonRun(_, _, _, _, _, _)
\* length of the longest common run of a[i..ahi] and b[j..bhi] starting at i, j
CommonRun(a, i, ahi, b, j, bhi) ==
  IF i <= ahi /\ j <= bhi /\ a[i] = b[j]
  THEN 1 + CommonRun(a, i + 1, ahi, b, j + 1, bhi)
  ELSE 0

\* SequenceMatcher.find_longest_match without junk: the longest block, the
\* earliest in a among the longest, the earliest in b among those
find_longest_match(a, alo, ahi, b, blo, bhi) ==
  LET pairs == {p \in (alo..ahi) \X (blo..bhi) : a[p[1]] = b[p[2]]}
      sizes == {CommonRun(a, p[1], ahi, b, p[2], bhi) : p \in pairs}
      k     == CHOOSE n \in sizes : \A m \in sizes : m <= n
      long  == {p \in pairs : CommonRun(a, p[1], ahi, b, p[2], bhi) = k}
      best  == CHOOSE p \in long :
                 \A q \in long : p[1] < q[1] \/ (p[1] = q[1] /\ p[2] <= q[2])
  IN  IF pairs = {} THEN <<alo, blo, 0>> ELSE <<best[1], best[2], k>>

RECURSIVE MatchTotal(_, _, _, _, _, _)
\* the sum of the sizes of SequenceMatcher.get_matching_blocks
MatchTotal(a, alo, ahi, b, blo, bhi) ==
  IF alo > ahi \/ blo > bhi THEN 0
  ELSE LET m == find_longest_match(a, alo, ahi, b, blo, bhi)
       IN  IF m[3] = 0 THEN 0
           ELSE m[3] + MatchTotal(a, alo, m[1] - 1, b, blo, m[2] - 1)
                     + MatchTotal(a, m[1] + m[3], ahi, b, m[2] + m[3], bhi)

\* SequenceMatcher(a=x, b=word).ratio() as the fraction <<numerator, denominator>>
Ratio(x, word) == <<2 * MatchTotal(x, 1, Len(x), word, 1, Len(word)), Len(x) + Len(word)>>

\* AboveCutoff for a search without a similarity floor
AboveCutoff_NoFloor(r) == TRUE

\* ratio >= cutoff for the cutoff 0.5 of heal_sql_query
AboveCutoff(r) == IF r[2] = 0 THEN TRUE ELSE 2 * r[1] >= r[2]

\* (ratio, x) < (ratio, y) as heapq.nlargest compares the pairs
ScoredLess(x, y, word) ==
  LET rx == Ratio(x, word)
      ry == Ratio(y, word)
  IN  \/ rx[1] * ry[2] < ry[1] * rx[2]
      \/ rx[1] * ry[2] = ry[1] * rx[2] /\ StrLess(x, y)

\* difflib.get_close_matches(word, possibilities, n=1, cutoff=0.5): the set
\* holding the best match, or the empty set
get_close_matches(word, possibilities) ==
  LET close == {x \in possibilities : AboveCutoff(Ratio(x, word))}
  IN  IF close = {} THEN {}
      ELSE {CHOOSE x \in close : \A y \in close : y = x \/ ScoredLess(y, x, word)}

\* the match of  column "([^"]+)" does not exist  at i: position after it
QuotedColumnEnd(msg, i) ==
  Lit(msg, RunNot1(msg, Lit(msg, i, <<"c","o","l","u","m","n"," ","\"">>), "\""), <<"\""," ","d","o","e","s"," ","n","o","t"," ","e","x","i","s","t">>)

\* the match of  column ([^ ]+) does not exist  at i: position after it
BareColumnEnd(msg, i) ==
  Lit(msg, RunNot1(msg, Lit(msg, i, <<"c","o","l","u","m","n"," ">>), " "), <<" ","d","o","e","s"," ","n","o","t"," ","e","x","i","s","t">>)

\* match.group(1) of the two searches of heal_sql_query; <<FALSE, <<>> >> when
\* neither pattern is found
MissingColumn(msg) ==
  LET q == FirstMatch(msg, [p \in 1..Len(msg) |-> QuotedColumnEnd(msg, p)])
      b == FirstMatch(msg, [p \in 1..Len(msg) |-> BareColumnEnd(msg, p)])
  IN  IF q # 0
      THEN <<TRUE, SubSeq(msg, q + 8, QuotedColumnEnd(msg, q) - 17)>>
      ELSE IF b # 0
      THEN <<TRUE, SubSeq(msg, b + 7, BareColumnEnd(msg, b) - 16)>>
      ELSE <<FALSE, <<>> >>

\* bad_col.split(".")[-1]
AfterLastDot(s) ==
  LET dots == {i \in 1..Len(s) : s[i] = "."}
  IN  IF dots = {} THEN s
      ELSE SubSeq(s, (CHOOSE i \in dots : \A j \in dots : j <= i) + 1, Len(s))

\* STRATEGY 2 applies: the name starts with an upper-case letter or has a blank
LooksLikeLiteral(clean_bad_col) ==
  /\ clean_bad_col # <<>>
  /\ (clean_bad_col[1] \in UpperSet \/ Contains(clean_bad_col, <<" ">>))

\* ReplaceColumn that leaves the statement as it was
ReplaceColumn_Unchanged(bad_sql, clean_bad_col, good_col) == bad_sql

\* the return of STRATEGY 1 for the match good_col
ReplaceColumn(bad_sql, clean_bad_col, good_col) ==
  Replace(bad_sql, clean_bad_col,
          IF Contains(good_col, <<".">>) THEN <<"\"">> \o good_col \o <<"\"">> ELSE good_col)

\* STRATEGY 1 for the result matches of get_close_matches, then STRATEGY 2
HealWith(bad_sql, clean_bad_col, matches) ==
  IF matches # {}
  THEN ReplaceColumn(bad_sql, clean_bad_col, CHOOSE x \in matches : TRUE)
  ELSE IF LooksLikeLiteral(clean_bad_col)
  THEN Replace(bad_sql, <<"\"">> \o clean_bad_col \o <<"\"">>, <<"'">> \o clean_bad_col \o <<"'">>)
  ELSE bad_sql

\* the body of  if match:  for the missing column bad_col
HealColumn(bad_sql, clean_bad_col, columns) ==
  HealWith(bad_sql, clean_bad_col, get_close_matches(clean_bad_col, columns))

\* the body of heal_sql_query for the outcome m of the two searches
HealMatch(bad_sql, m, columns) ==
  IF m[1] THEN HealColumn(bad_sql, AfterLastDot(m[2]), columns) ELSE bad_sql

heal_sql_query(bad_sql, error_msg, columns) ==
  HealMatch(bad_sql, MissingColumn(error_msg), columns)

(***************************************************************************)
(* The relational engine, as far as execute_sql sees it                    *)
(***************************************************************************)
\* names the engine may report as missing columns when they occur in a statement
MissingNames ==
  { <<"i","l","l","i","t","e","r","a","t","e","_","p","e","r","s","o","n">>, <<"p","_","l","i","t">>, <<"R","i","c","e">>, <<"W","e","s","t"," ","B","e","n","g","a","l">>, <<"z","q">>, <<"s","t","a","t","e","_","n","a","m","e">>,
    <<"C","r","o","p">> }

\* str(e) of a failed statement: the driver's message and the statement text
ErrorText(kind, message, stmt) ==
  <<"(","p","s","y","c","o","p","g","2",".","e","r","r","o","r","s",".">> \o kind \o <<")"," ">> \o message \o <<"\n","[","S","Q","L",":"," ">> \o stmt \o <<"]">>

\* whether name occurs in stmt as an identifier: a whole word, outside '...'
OccursAsName(stmt, name) ==
  \E i \in 1..Len(stmt) :
    /\ MatchAt(stmt, i, name)
    /\ BoundaryBefore(stmt, i)
    /\ BoundaryBefore(stmt, i + Len(name))
    /\ (i > 1 => stmt[i - 1] # "'")

\* the errors the engine may raise for stmt
EngineErrors(stmt) ==
  { ErrorText(<<"S","y","n","t","a","x","E","r","r","o","r">>, <<"s","y","n","t","a","x"," ","e","r","r","o","r"," ","a","t"," ","o","r"," ","n","e","a","r"," ","\"","F","R","O","M","\"">>, stmt),
    ErrorText(<<"U","n","d","e","f","i","n","e","d","T","a","b","l","e">>, <<"r","e","l","a","t","i","o","n"," ","\"","c","e","n","s","u","s","\""," ","d","o","e","s"," ","n","o","t"," ","e","x","i","s","t">>, stmt) }
  \cup
  { ErrorText(<<"U","n","d","e","f","i","n","e","d","C","o","l","u","m","n">>, <<"c","o","l","u","m","n"," ","\"">> \o c \o <<"\""," ","d","o","e","s"," ","n","o","t"," ","e","x","i","s","t">>, stmt) :
      c \in {n \in MissingNames : OccursAsName(stmt, n)} }
  \cup
  { ErrorText(<<"U","n","d","e","f","i","n","e","d","C","o","l","u","m","n">>, <<"c","o","l","u","m","n"," ","e",".">> \o c \o <<" ","d","o","e","s"," ","n","o","t"," ","e","x","i","s","t">>, stmt) :
      c \in {n \in MissingNames : OccursAsName(stmt, <<"e",".">> \o n)} }

\* the test of execute_sql for a missing-column error
IsColumnError(error_text) ==
  LET error_str == Lower(error_text)
  IN  Contains(error_str, <<"c","o","l","u","m","n">>) /\ Contains(error_str, <<"d","o","e","s"," ","n","o","t"," ","e","x","i","s","t">>)

\* the keywords by which execute_sql takes a statement for data-modifying
DmlKeywords == { <<"i","n","s","e","r","t">>, <<"u","p","d","a","t","e">>, <<"d","e","l","e","t","e">>, <<"c","r","e","a","t","e">>, <<"a","l","t","e","r">>, <<"d","r","o","p">> }

\* IsDml without the lower() of the statement
IsDml_CaseSensitive(stmt) == \E k \in DmlKeywords : Contains(stmt, k)

IsDml(stmt) == LET low == Lower(stmt) IN \E k \in DmlKeywords : Contains(low, k)

\* FirstAttempt for a handler that heals after every failure
FirstAttempt_Any(n) == TRUE

\* the test  attempt == 0  of the except branch
FirstAttempt(n) == n = 0

\* Changed for a flag that is set whatever the patcher did
Changed_Always(new, old) == TRUE

\* the test  patched_sql != current_sql
Changed(new, old) == new # old

\* InRange for a loop over range(1)
InRange_Once(n) == n < 1

\* NextAttempt for a loop that retries without counting
NextAttempt_Uncounted(n) == 0

\* the next value of  for attempt in range(2)
NextAttempt(n) == n + 1

\* whether range(2) holds n
InRange(n) == n < 2


(***************************************************************************)
(* Inputs: questions made of fragments of a lexicon                        *)
(***************************************************************************)
Lexicon ==
  << <<"W","h","a","t"," ","i","s"," ","t","h","e">>,
     <<"T","o","t","a","l">>,
     <<"l","i","t","e","r","a","c","y">>,
     <<"w","o","r","k","e","r">>,
     <<"c","o","m","p","a","r","i","s","o","n">>,
     <<"w","h","e","a","t">>,
     <<"m","o","s","t">>,
     <<"s","e","a","s","o","n">>,
     <<"h","i","n","d","i">> >>

Max(S) == CHOOSE m \in S : \A x \in S : x <= m

RECURSIVE Phrase(_)
\* the fragments with index in S, in lexicon order, separated by blanks
Phrase(S) ==
  IF S = {} THEN <<>>
  ELSE LET m == Max(S)
           rest == Phrase(S \ {m})
       IN  IF rest = <<>> THEN Lexicon[m] ELSE rest \o <<" ">> \o Lexicon[m]

\* the example question of the table-selection description
ExampleQuestion == <<"W","h","a","t"," ","i","s"," ","t","h","e"," ","t","o","t","a","l"," ","p","o","p","u","l","a","t","i","o","n"," ","i","n"," ","r","u","r","a","l"," ","K","e","r","a","l","a","?">>

Questions ==
  {Phrase(S) : S \in {T \in SUBSET (1..Len(Lexicon)) : Cardinality(T) <= MaxWords}}
    \cup {ExampleQuestion}

\* what load_csv_keywords can return: no file, or the names of the file
CsvSnapshots ==
  { [language |-> {}, religion |-> {}, age |-> {}],
    [language |-> {<<"h","i","n","d","i">>},
     religion |-> {<<"h","i","n","d","u">>},
     age      |-> {<<"0","-","4">>}] }

(***************************************************************************)
(* Inputs: texts of the generation backend or of a client                  *)
(***************************************************************************)
\* a statement of n characters that FIX 0 of the patcher targets
LongStatement(n) ==
  <<"S","E","L","E","C","T"," ","C","A","S","T","(","t","o","t","_","p"," ","A","S"," ","B","I","G","I","N","T"," ",")"," ","F","R","O","M"," ","r","e","l","i","g","i","o","n","_","s","t","a","t","s">>
    \o [i \in 1..(n - 50) |-> " "] \o <<";">>

ShortStatements ==
  { <<"S","E","L","E","C","T"," ","s","t","a","t","e"," ","F","R","O","M"," ","r","e","g","i","o","n","s",";">>,
    <<"S","E","L","E","C","T"," ","a",".","c","o","l",".","1"," ","F","R","O","M"," ","t"," ","a",";">>,
    <<"S","E","L","E","C","T"," ","a",".","\"","c","o","l",".","1","\""," ","F","R","O","M"," ","t"," ","a",";">>,
    <<"S","E","L","E","C","T"," ","\"","a",".","b",".","1","\""," ","F","R","O","M"," ","t",";">>,
    <<"S","E","L","E","C","T"," ","a",".","c","o","l",".","1",","," ","x",".","b",".","2","2"," ","F","R","O","M"," ","t"," ","a",";">>,
    <<"S","E","L","E","C","T"," ","a",".","c","o","l",".","1","x"," ","F","R","O","M"," ","t"," ","a",";">>,
    <<"S","E","L","E","C","T"," ","t",".","a",".","b",".","1"," ","F","R","O","M"," ","t",";">>,
    <<"S","E","L","E","C","T"," ","a",".","b",".","1",".","c",".","2",".","3"," ","F","R","O","M"," ","t"," ","a",";">>,
    <<"S","E","L","E","C","T"," ","n","a","m","e"," ","F","R","O","M"," ","t"," ","W","H","E","R","E"," ","i","p"," ","="," ","'","1","0",".","0",".","0",".","1","'",";">>,
    <<"S","E","L","E","C","T"," ","C","A","S","T","(","t","o","t","_","p"," ","A","S"," ","B","I","G","I","N","T"," ",")"," ","F","R","O","M"," ","r","e","l","i","g","i","o","n","_","s","t","a","t","s",";">>,
    <<"S","E","L","E","C","T"," ","i","l","l","i","t","e","r","a","t","e","_","p","e","r","s","o","n"," ","F","R","O","M"," ","e","d","u","c","a","t","i","o","n","_","s","t","a","t","s",";">>,
    <<"S","E","L","E","C","T"," ","s","t","a","t","e"," ","F","R","O","M"," ","e","d","u","c","a","t","i","o","n","_","s","t","a","t","s"," ","O","R","D","E","R"," ","B","Y"," ","i","l","l","i","t","e","r","a","t","e","_","p","e","r","s","o","n",";">>,
    <<"S","E","L","E","C","T"," ","i","l","l","i","t","e","r","a","t","e","_","p","e","r","s","o","n","s"," ","F","R","O","M"," ","c","e","n","s","u","s"," ","O","R","D","E","R"," ","B","Y"," ","i","l","l","i","t","e","r","a","t","e","_","p","e","r","s","o","n",";">>,
    <<"S","E","L","E","C","T"," ","s","t","a","t","e"," ","F","R","O","M"," ","c","e","n","s","u","s"," ","W","H","E","R","E"," ","s","t","a","t","e","_","n","a","m","e"," ","="," ","'","G","o","a","'"," ","O","R","D","E","R"," ","B","Y"," ","i","l","l","i","t","e","r","a","t","e","_","p","e","r","s","o","n",";">>,
    <<"S","E","L","E","C","T"," ","l","a","n","g","u","a","g","e","_","n","a","m","e"," ","F","R","O","M"," ","l","a","n","g","u","a","g","e","s",";">>,
    <<"S","E","L","E","C","T"," ","e",".","t","o","t","_","p",",","p","_","l","i","t"," ","F","R","O","M"," ","e","d","u","c","a","t","i","o","n","_","s","t","a","t","s"," ","e",";">>,
    <<"S","E","L","E","C","T"," ","r",".","t","o","t","_","p"," ","F","R","O","M"," ","r","e","l","i","g","i","o","n","_","s","t","a","t","s"," ","r",";">>,
    <<"S","E","L","E","C","T"," ","e",".","t","o","t","_","p"," ","F","R","O","M"," ","e","d","u","c","a","t","i","o","n","_","s","t","a","t","s"," ","e"," ","J","O","I","N"," ","r","e","l","i","g","i","o","n","_","s","t","a","t","s"," ","r"," ","O","N"," ","e",".","s","t","a","t","e"," ","="," ","r",".","s","t","a","t","e",";">>,
    <<"S","E","L","E","C","T"," ","e",".","p","_","l","i","t"," ","F","R","O","M"," ","c","e","n","s","u","s"," ","e",";">>,
    <<"S","E","L","E","C","T"," ","c","r","o","p"," ","F","R","O","M"," ","c","r","o","p","_","s","t","a","t","s"," ","W","H","E","R","E"," ","s","t","a","t","e","_","n","a","m","e"," ","I","L","I","K","E"," ","'","%","K","e","r","a","l","a","%","'",";">>,
    <<"S","E","L","E","C","T"," ","c","r","o","p"," ","F","R","O","M"," ","c","r","o","p","_","s","t","a","t","s"," ","W","H","E","R","E"," ","y","e","a","r"," ","="," ","2","0","2","0"," ","a","n","d"," ","s","t","a","t","e","_","n","a","m","e"," "," ","i","l","i","k","e"," ","'","G","o","a","'",";">>,
    <<"S","E","L","E","C","T"," ","\"","R","i","c","e","\""," ","F","R","O","M"," ","c","r","o","p","_","s","t","a","t","s",";">>,
    <<"S","E","L","E","C","T"," ","c","r","o","p"," ","F","R","O","M"," ","c","r","o","p","s"," ","W","H","E","R","E"," ","c","r","o","p"," ","="," ","\"","R","i","c","e","\"",";">>,
    <<"S","E","L","E","C","T"," ","c","r","o","p"," ","F","R","O","M"," ","c","r","o","p","s"," ","W","H","E","R","E"," ","c","r","o","p"," ","="," ","\"","C","r","o","p","\"",";">>,
    <<"S","E","L","E","C","T"," ","c","r","o","p"," ","F","R","O","M"," ","c","r","o","p","_","s","t","a","t","s"," ","W","H","E","R","E"," ","s","t","a","t","e","_","n","a","m","e"," ","="," ","'","G","o","a","'",";">>,
    <<"S","E","L","E","C","T"," ","c","r","o","p"," ","F","R","O","M"," ","c","r","o","p","_","s","t","a","t","s"," ","W","H","E","R","E"," ","c","r","o","p"," ","="," ","\"","R","i","c","e","\""," ","A","N","D"," ","s","t","a","t","e","_","n","a","m","e"," ","I","L","I","K","E"," ","'","%","G","o","a","%","'",";">>,
    <<"S","E","L","E","C","T"," ","s","t","a","t","e"," ","F","R","O","M"," ","p","o","p","u","l","a","t","i","o","n","_","s","t","a","t","s"," ","W","H","E","R","E"," ","s","t","a","t","e","_","n","a","m","e"," ","I","L","I","K","E"," ","'","%","K","e","r","a","l","a","%","'",";">>,
    <<"S","E","L","E","C","T"," ","s","t","a","t","e"," ","F","R","O","M"," ","r","e","g","i","o","n","s"," ","W","H","E","R","E"," ","a","r","e","a","_","n","a","m","e"," ","="," ","\"","W","e","s","t"," ","B","e","n","g","a","l","\"",";">>,
    <<"S","E","L","E","C","T"," ","z","q"," ","F","R","O","M"," ","r","e","g","i","o","n","s",";">>,
    <<"S","E","L","E","C","T"," ","'","c","o","l","u","m","n"," ","\"","n","m","e","\""," ","d","o","e","s"," ","n","o","t"," ","e","x","i","s","t","'"," ","F","R","O","M"," ","c","e","n","s","u","s",";">>,
    <<"S","E","L","E","C","T"," ","l",".","n","a","m","e"," ","F","R","O","M"," ","r","e","l","i","g","i","o","n","_","s","t","a","t","s"," ","p"," ","J","O","I","N"," ","l","a","n","g","u","a","g","e","s"," ","l"," ","O","N"," ","p",".","t","r","u","_","i","d"," ","="," ","l",".","t","r","u","_","i","d",";">>,
    <<"S","E","L","E","C","T"," ","l",".","n","a","m","e"," ","F","R","O","M"," ","r","e","l","i","g","i","o","n","_","s","t","a","t","s"," ","r"," ","j","o","i","n"," ","l","a","n","g","u","a","g","e","s"," ","l"," ","o","n"," ","r",".","l","a","n","g","u","a","g","e","_","i","d","=","l",".","i","d",";">>,
    <<"S","E","L","E","C","T"," ","l",".","n","a","m","e"," ","F","R","O","M"," ","r","e","g","i","o","n","s"," ","r"," ","J","O","I","N"," ","l","a","n","g","u","a","g","e","s"," ","l"," ","O","N"," ","r",".","s","t","a","t","e"," ","="," ","L",".","s","t","a","t","e",";">>,
    <<"S","E","L","E","C","T"," ","l",".","n","a","m","e"," ","F","R","O","M"," ","l","a","n","g","u","a","g","e","_","s","t","a","t","s"," ","s"," ","J","O","I","N"," ","l","a","n","g","u","a","g","e","s"," ","l"," ","O","N"," ","s",".","l","a","n","g","u","a","g","e","_","i","d"," ","="," ","l",".","i","d",";">>,
    <<"U","P","D","A","T","E"," ","r","e","g","i","o","n","s"," ","S","E","T"," ","a","r","e","a","_","n","a","m","e"," ","="," ","'","G","o","a","'",";">>,
    <<"U","P","D","A","T","E"," ","r","e","g","i","o","n","s"," ","S","E","T"," ","a","r","e","a","_","n","a","m","e"," ","="," ","'","G","o","a","'"," ","W","H","E","R","E"," ","s","t","a","t","e","_","n","a","m","e"," ","="," ","'","G","o","a","'",";">>,
    <<"S","E","L","E","C","T"," ","1",";"," ","D","R","O","P"," ","T","A","B","L","E"," ","r","e","g","i","o","n","s",";">>,
    <<BackQuote,BackQuote,BackQuote,"s","q","l","\n","S","E","L","E","C","T"," ","a",".","c","o","l",".","1"," ","F","R","O","M"," ","t"," ","a",";","\n",BackQuote,BackQuote,BackQuote>>,
    <<BackQuote,BackQuote,BackQuote,"s","q","l","\n","S","E","L","E","C","T"," ","s","t","a","t","e"," ","F","R","O","M"," ","r","e","g","i","o","n","s",";","\n",BackQuote,BackQuote,BackQuote," ","T","h","i","s"," ","l","i","s","t","s"," ","t","h","e"," ","s","t","a","t","e","s",";"," ","u","s","e"," ","i","t",".">> }

Statements == ShortStatements \cup {LongStatement(2000), LongStatement(2001)}

\* what the schema file gives the Column Index
SchemaColumns ==
  { <<"i","l","l","i","t","e","r","a","t","e","_","p","e","r","s","o","n","s">>, <<"l","i","t","e","r","a","t","e","s","_","p","e","r","s","o","n">>, <<"t","o","t","a","l","_","p","e","r","s","o","n">>, <<"t","o","t","_","p">>,
    <<"a","r","e","a","_","n","a","m","e">>, <<"s","t","a","t","e">>, <<"n","a","m","e">>, <<"c","r","o","p">> }


(***************************************************************************)
(* Schema cache: database_schema.json, FULL_SCHEMA_CACHE, build_schema_ddl *)
(***************************************************************************)
\* a column entry of the schema file
Column(c_name, c_type) == [name |-> c_name, type |-> c_type]

\* database_schema.json as the export writes it: the tables in file order
SchemaFile ==
  [exists |-> TRUE,
   tables |->
     << [table |-> "regions",
         columns |-> <<Column(<<"s","t","a","t","e">>, <<"t","e","x","t">>), Column(<<"a","r","e","a","_","n","a","m","e">>, <<"t","e","x","t">>)>>],
        [table |-> "languages",
         columns |-> <<Column(<<"n","a","m","e">>, <<"t","e","x","t">>)>>],
        [table |-> "population_stats",
         columns |-> <<Column(<<"s","t","a","t","e">>, <<"t","e","x","t">>), Column(<<"t","o","t","a","l","_","p","e","r","s","o","n">>, <<"b","i","g","i","n","t">>),
                       Column(<<"t","o","t","_","p">>, <<"b","i","g","i","n","t">>)>>],
        [table |-> "education_stats",
         columns |-> <<Column(<<"s","t","a","t","e">>, <<"t","e","x","t">>), Column(<<"i","l","l","i","t","e","r","a","t","e","_","p","e","r","s","o","n","s">>, <<"b","i","g","i","n","t">>),
                       Column(<<"l","i","t","e","r","a","t","e","s","_","p","e","r","s","o","n">>, <<"b","i","g","i","n","t">>)>>],
        [table |-> "crop_stats",
         columns |-> <<Column(<<"s","t","a","t","e">>, <<"t","e","x","t">>), Column(<<"c","r","o","p">>, <<"t","e","x","t">>)>>] >>]

\* a schema file whose column names need quoting, and a table without columns
SurveyFile ==
  [exists |-> TRUE,
   tables |->
     << [table |-> "crop_stats",
         columns |-> <<Column(<<"c","r","o","p">>, <<"t","e","x","t">>), Column(<<"y","i","e","l","d",".","2","0","2","0">>, <<"r","e","a","l">>),
                       Column(<<"a","r","e","a"," ","s","o","w","n">>, <<"r","e","a","l">>)>>],
        [table |-> "tru", columns |-> <<>>] >>]

\* no database_schema.json in the working directory
NoFile == [exists |-> FALSE, tables |-> <<>>]

\* entry c without its key k
WithoutKey(c, k) == [x \in (DOMAIN c) \ {k} |-> c[x]]

\* the file f with key k missing in column j of table i
Damaged(f, i, j, k) ==
  [f EXCEPT !.tables[i].columns[j] = WithoutKey(f.tables[i].columns[j], k)]

\* the positions <<table, column>> of the columns of SchemaFile
ColumnPositions ==
  {p \in (1..Len(SchemaFile.tables)) \X (1..Cardinality(SchemaColumns)) :
     p[2] <= Len(SchemaFile.tables[p[1]].columns)}

\* the schema files the service is started with
SchemaFiles ==
  {SchemaFile, SurveyFile, NoFile}
    \cup {Damaged(SchemaFile, p[1], p[2], k) : p \in ColumnPositions, k \in {"name", "type"}}

\* FULL_SCHEMA_CACHE[table_name] = {"columns": cols_list}
Store(cache, table_name, cols) ==
  [t \in (DOMAIN cache) \cup {table_name} |->
     IF t = table_name THEN cols ELSE cache[t]]

RECURSIVE CacheOf(_, _)
\* FULL_SCHEMA_CACHE after the first n tables of a well-formed file
CacheOf(file_tables, n) ==
  IF n = 0 THEN <<>>
  ELSE Store(CacheOf(file_tables, n - 1), file_tables[n].table, file_tables[n].columns)

\* the text of a table name
TableText(t) ==
  CASE t = "regions"          -> <<"r","e","g","i","o","n","s">>
    [] t = "tru"              -> <<"t","r","u">>
    [] t = "languages"        -> <<"l","a","n","g","u","a","g","e","s">>
    [] t = "religions"        -> <<"r","e","l","i","g","i","o","n","s">>
    [] t = "age_groups"       -> <<"a","g","e","_","g","r","o","u","p","s">>
    [] t = "religion_stats"   -> <<"r","e","l","i","g","i","o","n","_","s","t","a","t","s">>
    [] t = "language_stats"   -> <<"l","a","n","g","u","a","g","e","_","s","t","a","t","s">>
    [] t = "population_stats" -> <<"p","o","p","u","l","a","t","i","o","n","_","s","t","a","t","s">>
    [] t = "healthcare_stats" -> <<"h","e","a","l","t","h","c","a","r","e","_","s","t","a","t","s">>
    [] t = "occupation_stats" -> <<"o","c","c","u","p","a","t","i","o","n","_","s","t","a","t","s">>
    [] t = "education_stats"  -> <<"e","d","u","c","a","t","i","o","n","_","s","t","a","t","s">>
    [] t = "crop_stats"       -> <<"c","r","o","p","_","s","t","a","t","s">>

\* the first of the names S in the order of sorted()
FirstSorted(S) ==
  CHOOSE t \in S : \A u \in S \ {t} : StrLess(TableText(t), TableText(u))

RECURSIVE Sorted(_)
\* sorted(selected_tables)
Sorted(S) ==
  IF S = {} THEN <<>> ELSE <<FirstSorted(S)>> \o Sorted(S \ {FirstSorted(S)})

RECURSIVE Join(_, _)
\* sep.join(texts)
Join(texts, sep) ==
  IF texts = <<>> THEN <<>>
  ELSE IF Len(texts) = 1 THEN texts[1]
  ELSE texts[1] \o sep \o Join(Tail(texts), sep)

\* one entry of cols: the column name, quoted if it holds a dot or a blank, and
\* the type
ColumnDdl(c) ==
  (IF Contains(c.name, <<".">>) \/ Contains(c.name, <<" ">>)
   THEN <<"\"">> \o c.name \o <<"\"">>
   ELSE c.name) \o <<" ">> \o c.type

\* one entry of ddl
TableDdl(t, cols) ==
  <<"C","R","E","A","T","E"," ","T","A","B","L","E"," ">> \o TableText(t) \o <<" ","(">>
    \o Join([j \in 1..Len(cols) |-> ColumnDdl(cols[j])], <<","," ">>) \o <<")",";">>

\* the tables of `names`, in order, that the cache holds
Cached(names, cache) == SelectSeq(names, LAMBDA t : t \in DOMAIN cache)

\* the entries of ddl for the table names `names`
DdlOf(names, cache) == [i \in 1..Len(names) |-> TableDdl(names[i], cache[names[i]])]

build_schema_ddl(selected_tables, cache) ==
  Join(DdlOf(Cached(Sorted(selected_tables), cache), cache), <<"\n">>)

\* formatted_prompt of _call_remote_llm
FormatPrompt(q, schema) ==
  <<"#","#","#"," ","T","a","s","k","\n","G","e","n","e","r","a","t","e"," ","a"," ","S","Q","L"," ","q","u","e","r","y"," ","t","o"," ","a","n","s","w","e","r"," ","t","h","e"," ","f","o","l","l","o","w","i","n","g"," ","q","u","e","s","t","i","o","n",":","\n",BackQuote>> \o q
    \o <<BackQuote,"\n","\n","#","#","#"," ","D","a","t","a","b","a","s","e"," ","S","c","h","e","m","a","\n">> \o schema
    \o <<"\n","\n","#","#","#"," ","I","n","s","t","r","u","c","t","i","o","n","s","\n","-"," ","O","u","t","p","u","t"," ","O","N","L","Y"," ","t","h","e"," ","S","Q","L"," ","q","u","e","r","y",".","\n","-"," ","U","s","e"," ","I","L","I","K","E"," ","f","o","r"," ","t","e","x","t"," ","c","o","m","p","a","r","i","s","o","n","s",".","\n">>
    \o <<"-"," ","I","M","P","O","R","T","A","N","T",":"," ","I","f"," ","a"," ","c","o","l","u","m","n"," ","n","a","m","e"," ","c","o","n","t","a","i","n","s"," ","d","o","t","s"," ","(","e",".","g","."," ","c","o","l",".","1",")",","," ","y","o","u"," ","M","U","S","T"," ","e","n","c","l","o","s","e"," ","i","t"," ","i","n"," ","d","o","u","b","l","e"," ","q","u","o","t","e","s"," ","(","e",".","g","."," ","\"","c","o","l",".","1","\"",")",".","\n","\n","#","#","#"," ","S","Q","L","\n">>

\* the questions of the generate requests
GenQuestions ==
  {<<>>, <<" ">>, ExampleQuestion, Lexicon[3], Lexicon[6], Lexicon[7]}

\* the answers of the generation backend
BackendTexts ==
  { <<"S","E","L","E","C","T"," ","s","t","a","t","e"," ","F","R","O","M"," ","r","e","g","i","o","n","s",";">>,
    <<BackQuote,BackQuote,BackQuote,"s","q","l","\n","S","E","L","E","C","T"," ","a",".","c","o","l",".","1"," ","F","R","O","M"," ","t"," ","a",";","\n",BackQuote,BackQuote,BackQuote>> }

(***************************************************************************)
(* Table selection as a state machine                                      *)
(***************************************************************************)
\* no /execute-sql request is under way
NoExecution ==
  /\ raw_sql = <<>>
  /\ generated = FALSE
  /\ sql_query = <<>>
  /\ normalized = <<>>
  /\ current_sql = <<>>
  /\ healed = FALSE
  /\ attempt = 0
  /\ status = "none"
  /\ result = [kind |-> "none", text |-> <<>>]
  /\ sent = <<>>
  /\ raised = <<>>
  /\ committed = <<>>

\* the start-up did not get to the schema file
NoSchema ==
  /\ FULL_SCHEMA_CACHE = <<>>
  /\ file_schema = NoFile
  /\ table_pos = 0
  /\ cols_list = <<>>

\* no generate request is under way
NoGeneration ==
  /\ schema_string = <<>>
  /\ prompts = <<>>
  /\ http_status = 0

\* the adds sets of RULES as the module defines them
RuleAdds == [r \in 1..Len(RULES) |-> RULES[r].adds]

\* the configuration objects as the module defines them, no request in the pool
NoRequests ==
  /\ core_tables = CORE_TABLES
  /\ rule_adds = RuleAdds
  /\ pool = <<>>

SelInit ==
  /\ \E c \in CsvSnapshots :
        /\ LANGUAGE_KEYWORDS = c.language
        /\ RELIGION_KEYWORDS = c.religion
        /\ AGE_GROUP_KEYWORDS = c.age
  /\ question \in Questions
  /\ stage = "received"
  /\ intents = {}
  /\ tables = {}
  /\ ALL_COLUMN_NAMES = {}
  /\ NoSchema
  /\ NoGeneration
  /\ NoExecution
  /\ NoRequests

\* select_tables of the service, as called by _call_remote_llm
SelectTables ==
  /\ stage = "received"
  /\ intents' = detect_intents(question)
  /\ tables' \in select_tables(question)
  /\ stage' = "selected"
  /\ UNCHANGED <<concurrentVars, startupVars, loaderVars, generatorVars, question, executorVars>>

\* select_tables of the evaluation-data generator
EvalSelectTables ==
  /\ stage = "received"
  /\ intents' = eval_detect_intents(Lower(question))
  /\ tables' \in eval_select_tables(question)
  /\ stage' = "eval_selected"
  /\ UNCHANGED <<concurrentVars, startupVars, loaderVars, generatorVars, question, executorVars>>

\* select_tables of the training-data generator
TemplateSelectTables ==
  /\ stage = "received"
  /\ intents' = TemplateDetect(Lower(question))
  /\ tables' \in template_select_tables(question)
  /\ stage' = "template_selected"
  /\ UNCHANGED <<concurrentVars, startupVars, loaderVars, generatorVars, question, executorVars>>

SelNext == SelectTables \/ EvalSelectTables \/ TemplateSelectTables

SelectorSpec == SelInit /\ [][SelNext]_vars

(***************************************************************************)
(* The /execute-sql request as a state machine                             *)
(***************************************************************************)
ExecInit ==
  /\ LANGUAGE_KEYWORDS = {}
  /\ RELIGION_KEYWORDS = {}
  /\ AGE_GROUP_KEYWORDS = {}
  /\ ALL_COLUMN_NAMES = SchemaColumns
  /\ FULL_SCHEMA_CACHE = CacheOf(SchemaFile.tables, Len(SchemaFile.tables))
  /\ file_schema = SchemaFile
  /\ table_pos = Len(SchemaFile.tables) + 1
  /\ cols_list = <<>>
  /\ NoGeneration
  /\ NoRequests
  /\ question = <<>>
  /\ intents = {}
  /\ tables = {}
  /\ stage = "raw"
  /\ raw_sql \in Statements
  /\ generated = FALSE
  /\ sql_query = <<>>
  /\ normalized = <<>>
  /\ current_sql = <<>>
  /\ healed = FALSE
  /\ attempt = 0
  /\ status = "none"
  /\ result = [kind |-> "none", text |-> <<>>]
  /\ sent = <<>>
  /\ raised = <<>>
  /\ committed = <<>>

\* _call_remote_llm answers with the normalised text of the generation
\* backend, and the client posts that answer to /execute-sql
GenerateSql ==
  /\ stage = "raw"
  /\ sql_query' = NormalizeGenerated(raw_sql)
  /\ generated' = TRUE
  /\ stage' = "submitted"
  /\ UNCHANGED <<concurrentVars, startupVars, loaderVars, generatorVars, selectorVars, raw_sql,
                 normalized, current_sql,
                 healed, attempt, status, result, sent, raised, committed>>

\* a client posts a text of its own to /execute-sql
SubmitSql ==
  /\ stage = "raw"
  /\ sql_query' = raw_sql
  /\ generated' = FALSE
  /\ stage' = "submitted"
  /\ UNCHANGED <<concurrentVars, startupVars, loaderVars, generatorVars, selectorVars, raw_sql,
                 normalized, current_sql,
                 healed, attempt, status, result, sent, raised, committed>>

\* execute_sql up to the retry loop
Prepare ==
  /\ stage = "submitted"
  /\ normalized' = sanitize_dot_columns(sql_query)
  /\ current_sql' = patch_broken_sql(normalized')
  /\ healed' = Changed(current_sql', normalized')
  /\ attempt' = 0
  /\ status' = "error"
  /\ result' = [kind |-> "records", text |-> <<>>]
  /\ stage' = "executing"
  /\ UNCHANGED <<concurrentVars, startupVars, loaderVars, generatorVars, selectorVars, raw_sql,
                 generated, sql_query, sent,
                 raised, committed>>

\* one pass of the loop in which the engine accepts current_sql
ExecuteOk ==
  /\ stage = "executing"
  /\ InRange(attempt)
  /\ sent' = Append(sent, current_sql)
  /\ result' = [kind |-> IF IsDml(current_sql) THEN "rows_affected" ELSE "records",
                text |-> <<>>]
  /\ status' = "success"
  /\ committed' = IF IsDml(current_sql) THEN Append(committed, current_sql) ELSE committed
  /\ stage' = "done"
  /\ UNCHANGED <<concurrentVars, startupVars, loaderVars, generatorVars, selectorVars, raw_sql,
                 generated, sql_query,
                 normalized, current_sql, healed, attempt, raised>>

\* one pass of the loop in which the engine raises an error with text e
ExecuteFails(e) ==
  /\ stage = "executing"
  /\ InRange(attempt)
  /\ sent' = Append(sent, current_sql)
  /\ raised' = Append(raised, e)
  /\ LET new_sql == heal_sql_query(current_sql, e, ALL_COLUMN_NAMES)
     IN  IF FirstAttempt(attempt) /\ IsColumnError(e) /\ new_sql # current_sql
         THEN /\ current_sql' = new_sql
              /\ healed' = TRUE
              /\ attempt' = NextAttempt(attempt)
              /\ stage' = IF InRange(attempt') THEN "executing" ELSE "done"
              /\ UNCHANGED <<status, result>>
         ELSE /\ result' = [kind |-> "error", text |-> e]
              /\ status' = "error"
              /\ stage' = "done"
              /\ UNCHANGED <<current_sql, healed, attempt>>
  /\ UNCHANGED <<concurrentVars, startupVars, loaderVars, generatorVars, selectorVars, raw_sql,
                 generated, sql_query, normalized,
                 committed>>

\* the engine keeps the attempt waiting: create_engine is given no timeout and
\* nothing in execute_sql ends the wait
EngineBlocks ==
  /\ stage = "executing"
  /\ InRange(attempt)
  /\ sent' = Append(sent, current_sql)
  /\ stage' = "blocked"
  /\ UNCHANGED <<concurrentVars, startupVars, loaderVars, generatorVars, selectorVars, raw_sql,
                 generated, sql_query, normalized, current_sql, healed, attempt,
                 status, result, raised, committed>>

ExecNext ==
  \/ GenerateSql
  \/ SubmitSql
  \/ Prepare
  \/ ExecuteOk
  \/ \E e \in EngineErrors(current_sql) : ExecuteFails(e)
  \/ EngineBlocks

ExecutorSpec == ExecInit /\ [][ExecNext]_vars

(***************************************************************************)
(* Start-up of the service and the generate requests as a state machine    *)
(***************************************************************************)
ServiceInit ==
  /\ \E c \in CsvSnapshots :
        /\ LANGUAGE_KEYWORDS = c.language
        /\ RELIGION_KEYWORDS = c.religion
        /\ AGE_GROUP_KEYWORDS = c.age
  /\ ALL_COLUMN_NAMES = {}
  /\ FULL_SCHEMA_CACHE = <<>>
  /\ file_schema \in SchemaFiles
  /\ table_pos = 0
  /\ cols_list = <<>>
  /\ stage = "starting"
  /\ question = <<>>
  /\ intents = {}
  /\ tables = {}
  /\ NoGeneration
  /\ NoExecution
  /\ NoRequests

\* engine.connect() succeeds and the schema file is opened and parsed; a
\* missing file raises, and the except clause of the module lets the
\* service start without a schema
OpenSchemaFile ==
  /\ stage = "starting"
  /\ IF file_schema.exists
     THEN /\ table_pos' = 1
          /\ stage' = IF file_schema.tables = <<>> THEN "serving" ELSE "loading"
     ELSE /\ stage' = "serving"
          /\ UNCHANGED table_pos
  /\ UNCHANGED <<concurrentVars, startupVars, cols_list, file_schema, generatorVars, selectorVars,
                 executorVars>>

\* engine.connect() raises: nothing is loaded and the service starts
ConnectFails ==
  /\ stage = "starting"
  /\ stage' = "serving"
  /\ UNCHANGED <<concurrentVars, startupVars, loaderVars, generatorVars, selectorVars, executorVars>>

\* the entry col has both keys the loop reads
WellFormed(col) == "name" \in DOMAIN col /\ "type" \in DOMAIN col

\* one turn of the loop over the columns of a table: a missing key raises
\* KeyError, which ends the load
LoadColumn ==
  /\ stage = "loading"
  /\ Len(cols_list) < Len(file_schema.tables[table_pos].columns)
  /\ IF WellFormed(file_schema.tables[table_pos].columns[Len(cols_list) + 1])
     THEN /\ cols_list' =
               Append(cols_list, file_schema.tables[table_pos].columns[Len(cols_list) + 1])
          /\ ALL_COLUMN_NAMES' = ALL_COLUMN_NAMES \cup
               {file_schema.tables[table_pos].columns[Len(cols_list) + 1].name}
          /\ UNCHANGED stage
     ELSE /\ stage' = "serving"
          /\ UNCHANGED <<cols_list, ALL_COLUMN_NAMES>>
  /\ UNCHANGED <<concurrentVars, LANGUAGE_KEYWORDS, RELIGION_KEYWORDS, AGE_GROUP_KEYWORDS,
                 FULL_SCHEMA_CACHE, file_schema, table_pos, generatorVars,
                 selectorVars, executorVars>>

\* the end of one turn of the loop over the tables
StoreTable ==
  /\ stage = "loading"
  /\ Len(cols_list) = Len(file_schema.tables[table_pos].columns)
  /\ FULL_SCHEMA_CACHE' =
       Store(FULL_SCHEMA_CACHE, file_schema.tables[table_pos].table, cols_list)
  /\ cols_list' = <<>>
  /\ table_pos' = table_pos + 1
  /\ stage' = IF table_pos' > Len(file_schema.tables) THEN "serving" ELSE "loading"
  /\ UNCHANGED <<concurrentVars, LANGUAGE_KEYWORDS, RELIGION_KEYWORDS, AGE_GROUP_KEYWORDS,
                 ALL_COLUMN_NAMES, file_schema, generatorVars, selectorVars,
                 executorVars>>

\* SchemaMissing letting every schema_string pass
SchemaMissing_Never(schema) == FALSE

\* if not schema_string
SchemaMissing(schema) == schema = <<>>

\* _call_remote_llm up to the request to the generation backend
CallRemoteLlm(q) ==
  /\ question' = q
  /\ intents' = detect_intents(q)
  /\ tables' \in select_tables(q)
  /\ schema_string' = build_schema_ddl(tables', FULL_SCHEMA_CACHE)
  /\ IF SchemaMissing(schema_string')
     THEN /\ http_status' = 500
          /\ stage' = "responded"
          /\ UNCHANGED prompts
     ELSE /\ prompts' = Append(prompts, FormatPrompt(q, schema_string'))
          /\ stage' = "calling"
          /\ UNCHANGED http_status
  /\ UNCHANGED <<concurrentVars, startupVars, loaderVars, executorVars>>

\* POST /generate-select-sql
GenerateSelect(q) ==
  /\ stage = "serving"
  /\ IF Strip(q) = <<>>
     THEN /\ question' = q
          /\ http_status' = 400
          /\ stage' = "responded"
          /\ UNCHANGED <<concurrentVars, startupVars, loaderVars, executorVars, intents, tables,
                         schema_string, prompts>>
     ELSE CallRemoteLlm(q)

\* POST /generate-other-sql
GenerateOther(q) ==
  /\ stage = "serving"
  /\ CallRemoteLlm(q)

\* the generation backend answers within the timeout with the text `text`
BackendReplies(text) ==
  /\ stage = "calling"
  /\ raw_sql' = text
  /\ sql_query' = NormalizeGenerated(text)
  /\ generated' = TRUE
  /\ http_status' = 200
  /\ stage' = "responded"
  /\ UNCHANGED <<concurrentVars, startupVars, loaderVars, selectorVars, schema_string, prompts,
                 normalized, current_sql, healed, attempt, status, result, sent,
                 raised, committed>>

\* requests.post raises (no answer within timeout=60, connection refused) or
\* raise_for_status / response.json() raises: HTTPException(500)
BackendFails ==
  /\ stage = "calling"
  /\ http_status' = 500
  /\ stage' = "responded"
  /\ UNCHANGED <<concurrentVars, startupVars, loaderVars, selectorVars, schema_string, prompts,
                 executorVars>>

ServiceNext ==
  \/ OpenSchemaFile
  \/ ConnectFails
  \/ LoadColumn
  \/ StoreTable
  \/ \E q \in GenQuestions : GenerateSelect(q)
  \/ \E q \in GenQuestions : GenerateOther(q)
  \/ \E text \in BackendTexts : BackendReplies(text)
  \/ BackendFails

ServiceSpec == ServiceInit /\ [][ServiceNext]_vars

(***************************************************************************)
(* Requests handled at the same time                                       *)
(***************************************************************************)
MaxRequests == 2

Requests == 1..MaxRequests

\* the questions and statements of the requests in the pool
PoolQuestions == {ExampleQuestion, Lexicon[3], Lexicon[6], Lexicon[9]}

PoolStatements ==
  { <<"S","E","L","E","C","T"," ","s","t","a","t","e"," ","F","R","O","M"," ","e","d","u","c","a","t","i","o","n","_","s","t","a","t","s"," ","O","R","D","E","R"," ","B","Y"," ","i","l","l","i","t","e","r","a","t","e","_","p","e","r","s","o","n",";">>,
    <<"S","E","L","E","C","T"," ","C","A","S","T","(","t","o","t","_","p"," ","A","S"," ","B","I","G","I","N","T"," ",")"," ","F","R","O","M"," ","r","e","l","i","g","i","o","n","_","s","t","a","t","s",";">>,
    <<"I","N","S","E","R","T"," ","I","N","T","O"," ","r","e","g","i","o","n","s"," ","(","s","t","a","t","e",")"," ","V","A","L","U","E","S"," ","(","1",")",";">> }

\* a request as it arrives
Arrived(kind, text) ==
  [kind |-> kind, pc |-> "received", input |-> text, intents |-> {}, tables |-> {},
   schema_string |-> <<>>, current_sql |-> <<>>, healed |-> FALSE, attempt |-> 0,
   status |-> "none"]

\*   tables = CORE_TABLES,  which gives the local name to the shared set
CoreAfterLoop_Aliased(core, local) == local

\* tables = set(CORE_TABLES): the loop  tables |= rule["adds"]  updates a copy
\* in place, the shared set stays what it is
CoreAfterLoop(core, local) == core

\* tables after the loop over RULES, read from the objects of the process
LoopTables(core, adds, active) ==
  core \cup UNION {adds[r] : r \in {k \in 1..Len(RULES) : RULES[k].intent \in active}}

\* the possible results of select_tables, read from the objects of the process
SelectFromObjects(core, adds, active) ==
  IF "agriculture" \in active
  THEN {{"crop_stats"}}
  ELSE {core \cup o : o \in Truncate(LoopTables(core, adds, active) \ core)}

\* the column index at the end of a start-up that read file f
IndexOf(f) ==
  UNION {{f.tables[i].columns[j].name : j \in 1..Len(f.tables[i].columns)} :
           i \in 1..Len(f.tables)}

ConcInit ==
  /\ \E c \in CsvSnapshots :
        /\ LANGUAGE_KEYWORDS = c.language
        /\ RELIGION_KEYWORDS = c.religion
        /\ AGE_GROUP_KEYWORDS = c.age
  /\ file_schema \in {SchemaFile, NoFile}
  /\ ALL_COLUMN_NAMES = IndexOf(file_schema)
  /\ FULL_SCHEMA_CACHE = CacheOf(file_schema.tables, Len(file_schema.tables))
  /\ table_pos = Len(file_schema.tables) + 1
  /\ cols_list = <<>>
  /\ stage = "serving"
  /\ question = <<>>
  /\ intents = {}
  /\ tables = {}
  /\ NoGeneration
  /\ NoExecution
  /\ core_tables = CORE_TABLES
  /\ rule_adds = RuleAdds
  /\ pool \in [Requests ->
                 {Arrived("generate", q) : q \in PoolQuestions}
                   \cup {Arrived("execute", s) : s \in PoolStatements}]

\* request r with the fields of `changes` replaced
Advance(r, changes) ==
  [pool EXCEPT ![r] = [f \in DOMAIN pool[r] |->
                         IF f \in DOMAIN changes THEN changes[f] ELSE pool[r][f]]]

\* _call_remote_llm of request r: select_tables
PoolSelect(r) ==
  /\ pool[r].kind = "generate"
  /\ pool[r].pc = "received"
  /\ \E selected \in SelectFromObjects(core_tables, rule_adds,
                                       detect_intents(pool[r].input)) :
        pool' = Advance(r, [intents |-> detect_intents(pool[r].input),
                            tables |-> selected, pc |-> "selected"])
  /\ core_tables' =
       IF "agriculture" \in detect_intents(pool[r].input)
       THEN core_tables
       ELSE CoreAfterLoop(core_tables,
              LoopTables(core_tables, rule_adds, detect_intents(pool[r].input)))
  /\ UNCHANGED <<rule_adds, startupVars, loaderVars, generatorVars, selectorVars,
                 executorVars, stage>>

\* _call_remote_llm of request r: build_schema_ddl and the test of its result
PoolRender(r) ==
  /\ pool[r].kind = "generate"
  /\ pool[r].pc = "selected"
  /\ pool' = Advance(r,
       [schema_string |-> build_schema_ddl(pool[r].tables, FULL_SCHEMA_CACHE),
        pc |-> IF SchemaMissing(build_schema_ddl(pool[r].tables, FULL_SCHEMA_CACHE))
               THEN "done" ELSE "calling",
        status |-> IF SchemaMissing(build_schema_ddl(pool[r].tables, FULL_SCHEMA_CACHE))
                   THEN "500" ELSE "none"])
  /\ UNCHANGED <<core_tables, rule_adds, startupVars, loaderVars, generatorVars,
                 selectorVars, executorVars, stage>>

\* the generation backend answers request r, or the call raises
PoolBackendAnswers(r, code) ==
  /\ pool[r].kind = "generate"
  /\ pool[r].pc = "calling"
  /\ pool' = Advance(r, [pc |-> "done", status |-> code])
  /\ UNCHANGED <<core_tables, rule_adds, startupVars, loaderVars, generatorVars,
                 selectorVars, executorVars, stage>>

\* execute_sql of request r up to the retry loop
PoolPrepare(r) ==
  /\ pool[r].kind = "execute"
  /\ pool[r].pc = "received"
  /\ pool' = Advance(r,
       [current_sql |-> patch_broken_sql(sanitize_dot_columns(pool[r].input)),
        healed |-> Changed(patch_broken_sql(sanitize_dot_columns(pool[r].input)),
                           sanitize_dot_columns(pool[r].input)),
        status |-> "error", pc |-> "executing"])
  /\ UNCHANGED <<core_tables, rule_adds, startupVars, loaderVars, generatorVars,
                 selectorVars, executorVars, stage>>

\* one pass of the loop of request r in which the engine accepts current_sql
PoolExecuteOk(r) ==
  /\ pool[r].kind = "execute"
  /\ pool[r].pc = "executing"
  /\ InRange(pool[r].attempt)
  /\ pool' = Advance(r, [status |-> "success", pc |-> "done"])
  /\ UNCHANGED <<core_tables, rule_adds, startupVars, loaderVars, generatorVars,
                 selectorVars, executorVars, stage>>

\* request r after the engine raised e on attempt n and the statement healed
Retried(r, new_sql) ==
  Advance(r, [current_sql |-> new_sql, healed |-> TRUE,
              attempt |-> NextAttempt(pool[r].attempt),
              pc |-> IF InRange(NextAttempt(pool[r].attempt))
                     THEN "executing" ELSE "done"])

\* one pass of the loop of request r in which the engine raises e
PoolExecuteFails(r, e) ==
  /\ pool[r].kind = "execute"
  /\ pool[r].pc = "executing"
  /\ InRange(pool[r].attempt)
  /\ pool' =
       IF /\ FirstAttempt(pool[r].attempt)
          /\ IsColumnError(e)
          /\ heal_sql_query(pool[r].current_sql, e, ALL_COLUMN_NAMES) # pool[r].current_sql
       THEN Retried(r, heal_sql_query(pool[r].current_sql, e, ALL_COLUMN_NAMES))
       ELSE Advance(r, [status |-> "error", pc |-> "done"])
  /\ UNCHANGED <<core_tables, rule_adds, startupVars, loaderVars, generatorVars,
                 selectorVars, executorVars, stage>>

\* the engine keeps the attempt of request r waiting
PoolEngineBlocks(r) ==
  /\ pool[r].kind = "execute"
  /\ pool[r].pc = "executing"
  /\ InRange(pool[r].attempt)
  /\ pool' = Advance(r, [pc |-> "blocked"])
  /\ UNCHANGED <<core_tables, rule_adds, startupVars, loaderVars, generatorVars,
                 selectorVars, executorVars, stage>>

ConcNext ==
  \E r \in Requests :
    \/ PoolSelect(r)
    \/ PoolRender(r)
    \/ \E code \in {"200", "500"} : PoolBackendAnswers(r, code)
    \/ PoolPrepare(r)
    \/ PoolExecuteOk(r)
    \/ \E e \in EngineErrors(pool[r].current_sql) : PoolExecuteFails(r, e)
    \/ PoolEngineBlocks(r)

ConcurrentSpec == ConcInit /\ [][ConcNext]_vars

(***************************************************************************)
(* Properties of intent detection and table selection                      *)
(***************************************************************************)
\* no strong term of any intent occurs in the lower-cased question
NoStrongTerm(q) ==
  LET found == Substrings(Lower(q)) IN \A i \in INTENTS : Strong(i) \cap found = {}

\* no weak term of any intent occurs in the lower-cased question
NoWeakTerm(q) ==
  LET found == Substrings(Lower(q)) IN \A i \in INTENTS : Weak(i) \cap found = {}

\* C1 (as stated): the result of select_tables contains every core table,
\* whatever intents are detected, the agriculture intent included.
C1_CoreAlwaysSelected ==
  stage = "selected" => CORE_TABLES \subseteq tables

\* C1 (amended): when the agriculture intent is not detected, the result of
\* select_tables contains every core table.
C1_CoreSelectedWithoutAgriculture ==
  (stage = "selected" /\ "agriculture" \notin intents) => CORE_TABLES \subseteq tables

C1_Witness ==
  /\ stage = "selected"
  /\ intents # {}
  /\ "agriculture" \notin intents
  /\ CORE_TABLES \subseteq tables
  /\ tables # CORE_TABLES

\* C2: the result of select_tables (service and evaluation generator) holds
\* at most MAX_OPTIONAL_TABLES tables outside the core set.
C2_OptionalAtMostCap ==
  stage \in {"selected", "eval_selected"} =>
     Cardinality(tables \ CORE_TABLES) <= MAX_OPTIONAL_TABLES

C2_Witness ==
  /\ stage = "eval_selected"
  /\ Cardinality(ApplyRules(EVAL_RULES, intents) \ CORE_TABLES) > MAX_OPTIONAL_TABLES
  /\ Cardinality(tables \ CORE_TABLES) = MAX_OPTIONAL_TABLES

\* C3: for a question in which no strong and no weak term occurs,
\* detect_intents is empty and select_tables is exactly the core set.
C3_NoKeywordGivesCore ==
  (stage = "selected" /\ NoStrongTerm(question) /\ NoWeakTerm(question)) =>
     (intents = {} /\ tables = CORE_TABLES)

C3_Witness ==
  /\ stage = "selected"
  /\ question # <<>>
  /\ NoStrongTerm(question)
  /\ NoWeakTerm(question)
  /\ tables = CORE_TABLES

\* C4: for a question in which no strong term occurs, detect_intents is
\* empty, also when weak terms occur in it.
C4_WeakAloneActivatesNothing ==
  (stage \in {"selected", "eval_selected"} /\ NoStrongTerm(question)) => intents = {}

C4_Witness ==
  /\ stage = "selected"
  /\ NoStrongTerm(question)
  /\ ~NoWeakTerm(question)
  /\ intents = {}

\* C5: when agriculture is among the detected intents, select_tables returns
\* exactly {crop_stats}, whichever other intents are active.
C5_AgricultureIsolates ==
  (stage = "selected" /\ "agriculture" \in intents) => tables = {"crop_stats"}

C5_Witness ==
  /\ stage = "selected"
  /\ "agriculture" \in intents
  /\ Cardinality(intents) > 1
  /\ tables = {"crop_stats"}


\* C20: with no keywords loaded from CSV files, the question
\* "What is the total population in rural Kerala?" yields the intent set
\* {population} and the tables core + {population_stats}
C20_ExampleQuestion ==
  (/\ stage = "selected"
   /\ question = ExampleQuestion
   /\ LANGUAGE_KEYWORDS = {} /\ RELIGION_KEYWORDS = {} /\ AGE_GROUP_KEYWORDS = {}) =>
     /\ intents = {"population"}
     /\ tables = CORE_TABLES \cup {"population_stats"}

\* the example question went through select_tables without CSV keywords
C20_Witness ==
  /\ stage = "selected"
  /\ question = ExampleQuestion
  /\ LANGUAGE_KEYWORDS = {} /\ RELIGION_KEYWORDS = {} /\ AGE_GROUP_KEYWORDS = {}
  /\ "population_stats" \in tables
(***************************************************************************)
(* Properties of the executor, the normaliser and the patcher              *)
(***************************************************************************)
\* execute_sql has entered its retry loop
Prepared == stage \in {"executing", "done"}

\* C6: in every run of execute_sql the engine is given a statement at most
\* twice, the original attempt and at most one retry, however many columns are
\* missing and however each attempt fails
C6_AtMostTwoExecutions == Len(sent) <= 2

\* a healed retry was sent and failed on a missing column once more
C6_Witness ==
  /\ stage = "done"
  /\ Len(sent) = 2
  /\ sent[1] # sent[2]
  /\ status = "error"
  /\ IsColumnError(result.text)

\* no statement terminator before the end of s
EndsAtFirstTerminator(s) == \A i \in 1..Len(s) : s[i] = ";" => i = Len(s)

\* C7: no text is sent to the engine before the full normaliser (fence
\* stripping, truncation to the first terminator, quoting of dotted names) has
\* been applied to the submitted text; a text holding several statements is
\* never executed beyond its first statement
C7_OnlyNormalizedTextExecuted ==
  \A k \in 1..Len(sent) :
    /\ (k = 1 => sent[k] = patch_broken_sql(NormalizeGenerated(sql_query)))
    /\ EndsAtFirstTerminator(sent[k])

\* position p of s lies inside a "..." identifier or a '...' literal
InsideQuotes(s, p) ==
  \/ Cardinality({k \in 1..(p - 1) : s[k] = "\""}) % 2 = 1
  \/ Cardinality({k \in 1..(p - 1) : s[k] = "'"}) % 2 = 1

\* every dotted reference of s stands inside quotes already
DottedColumnsQuoted(s) ==
  \A p \in 1..Len(s) : DotColumnEnd(s, p) # 0 => InsideQuotes(s, p)

\* C8: sanitize_dot_columns is idempotent, and a statement whose dotted columns
\* are quoted already, quoted identifiers and string literals with two dots
\* included, is returned unchanged
C8_NormalizerIdempotentAndNoOp ==
  Prepared =>
    /\ sanitize_dot_columns(normalized) = normalized
    /\ (DottedColumnsQuoted(sql_query) => normalized = sql_query)

\* s with each alias.identifier.digits outside quotes rewritten to
\* alias."identifier.digits" and nothing else changed
QuoteUnquotedReferences(s) ==
  SubFrom(s,
          [p \in 1..Len(s) |-> IF InsideQuotes(s, p) THEN 0 ELSE DotColumnEnd(s, p)],
          [p \in 1..Len(s) |-> DotColumnQuoted(s, p)],
          1)

\* C9: the normaliser rewrites each unquoted reference alias.identifier.digits
\* to alias."identifier.digits" and changes nothing else
C9_OnlyUnquotedReferencesRewritten ==
  Prepared => normalized = QuoteUnquotedReferences(sql_query)

\* s has a state_name filter as FIX 3 looks for it
HasStateFilter(s) ==
  LET low == Lower(s)
  IN  \E p \in 1..Len(s) :
        StateFilterEnd(s, low, p, <<"a","n","d">>) # 0 \/ StateFilterEnd(s, low, p, <<"w","h","e","r","e">>) # 0

\* s has a join of languages as FIX 4 looks for it
HasBrokenJoin(s) ==
  LET low == Lower(s)
  IN  \E p \in 1..Len(s) :
        PatternAEnd(s, low, p) # 0 \/ PatternBEnd(s, low, p) # 0 \/ PatternCEnd(s, low, p) # 0

\* s holds none of the patterns the patcher targets
NoTargetedPattern(s) ==
  /\ ~Contains(s, <<"B","I","G","I","N","T">>)
  /\ \A k \in 1..Len(replacements) : ~Contains(s, replacements[k][1])
  /\ ~ /\ Contains(s, <<"e","d","u","c","a","t","i","o","n","_","s","t","a","t","s">>)
       /\ ~Contains(s, <<"r","e","l","i","g","i","o","n","_","s","t","a","t","s">>)
       /\ \E k \in 1..Len(column_map) : \E c \in {".", " ", ","} :
            Contains(s, <<c>> \o column_map[k][1])
  /\ ~ /\ Contains(s, <<"c","r","o","p","_","s","t","a","t","s">>)
       /\ (HasStateFilter(s) \/ Contains(s, <<"S","E","L","E","C","T"," ","\"","R","i","c","e","\"">>))
  /\ ~ /\ Contains(s, <<"l","a","n","g","u","a","g","e","s">>)
       /\ ~Contains(s, <<"l","a","n","g","u","a","g","e","_","s","t","a","t","s">>)
       /\ HasBrokenJoin(s)

\* C10: a statement with none of the targeted patterns leaves patch_broken_sql
\* unchanged, and execute_sql reports healed = false for it unless error-driven
\* healing rewrites it later
C10_PatcherIdentityWithoutPatterns ==
  (Prepared /\ NoTargetedPattern(normalized)) =>
    /\ (Len(sent) >= 1 => sent[1] = normalized)
    /\ (attempt = 0 => current_sql = normalized /\ healed = FALSE)
    /\ (healed => attempt = 1 /\ Len(sent) >= 1 /\ current_sql # sent[1])

\* a statement on education_stats and religion_stats with a religion-style
\* column went through unpatched and unhealed
C10_Witness ==
  /\ stage = "done"
  /\ NoTargetedPattern(normalized)
  /\ Contains(normalized, <<"e","d","u","c","a","t","i","o","n","_","s","t","a","t","s">>)
  /\ Contains(normalized, <<".","t","o","t","_","p">>)
  /\ sent = <<normalized>>
  /\ healed = FALSE

\* the engine raised e for a missing column
IsUndefinedColumn(e) == MatchAt(e, 1, <<"(","p","s","y","c","o","p","g","2",".","e","r","r","o","r","s",".","U","n","d","e","f","i","n","e","d","C","o","l","u","m","n",")">>)

\* the response of execute_sql reports the error text e
ReportsError(e) == status = "error" /\ result = [kind |-> "error", text |-> e]

\* C11: when the first attempt fails with an error that is not a missing-column
\* error, nothing is healed and nothing is executed again: the statement was
\* executed exactly once and that error is returned with status "error"
C11_OtherErrorsNotHealed ==
  (stage = "done" /\ Len(raised) >= 1 /\ ~IsUndefinedColumn(raised[1])) =>
    /\ Len(sent) = 1
    /\ current_sql = sent[1]
    /\ ReportsError(raised[1])

\* C12: when the healed retry fails too, for whatever reason, execute_sql stops
\* with status "error", the second error as result, the rewritten statement as
\* sql_query and healed = true
C12_SecondFailureIsFinal ==
  (stage = "done" /\ Len(raised) >= 2) =>
    /\ Len(sent) = 2
    /\ sent[2] # sent[1]
    /\ current_sql = sent[2]
    /\ ReportsError(raised[2])
    /\ healed = TRUE

\* the healed retry failed, once on a missing column and once for another reason
C12_Witness ==
  /\ stage = "done"
  /\ Len(raised) = 2
  /\ IsUndefinedColumn(raised[1])
  /\ ~IsUndefinedColumn(raised[2])
  /\ ReportsError(raised[2])
  /\ healed = TRUE

\* the identifier heal_sql_query takes from the error text e
MissingIdentifier(e) == AfterLastDot(MissingColumn(e)[2])

\* neither strategy of heal_sql_query applies to the identifier c: no column
\* name has a ratio of 0.5 or more, c starts with no capital and has no blank
NoRepairApplies(c) ==
  /\ \A x \in ALL_COLUMN_NAMES : 2 * Ratio(x, c)[1] < Ratio(x, c)[2]
  /\ c # <<>> => (c[1] \notin UpperSet /\ ~Contains(c, <<" ">>))

\* C13: when the first attempt fails on a missing column and neither repair
\* applies, the statement stays as it was, is not executed again, and the
\* response carries the original error with status "error"
C13_UnrepairableErrorSurfaced ==
  (/\ stage = "done"
   /\ Len(raised) >= 1
   /\ IsUndefinedColumn(raised[1])
   /\ MissingColumn(raised[1])[1]
   /\ NoRepairApplies(MissingIdentifier(raised[1]))) =>
    /\ Len(sent) = 1
    /\ current_sql = sent[1]
    /\ ReportsError(raised[1])

\* a missing column without a similar name in the Column Index was reported
C13_Witness ==
  /\ stage = "done"
  /\ Len(raised) = 1
  /\ IsUndefinedColumn(raised[1])
  /\ MissingIdentifier(raised[1]) = <<"z","q">>
  /\ NoRepairApplies(<<"z","q">>)
  /\ sent = <<current_sql>>
  /\ ReportsError(raised[1])

\* the statement of the first attempt: the patched one
FirstText == IF sent = <<>> THEN current_sql ELSE sent[1]

\* C14: healed is true exactly if the patcher or the healer changed the
\* statement; healed = false implies that sql_query of the response is the
\* normalised form of the submitted text; a flag that was set stays set
C14_HealedIffRepaired ==
  Prepared =>
    /\ healed = (FirstText # normalized \/ current_sql # FirstText)
    /\ (healed = FALSE => current_sql = sanitize_dot_columns(sql_query))

\* the flag set by the patcher is still set after a retry that the healer
\* rewrote, and unset for a statement nothing changed
C14_Witness ==
  /\ stage = "done"
  /\ Len(sent) = 2
  /\ FirstText # normalized
  /\ healed = TRUE

HoldsDmlKeyword(stmt) ==
  \E k \in {<<"i","n","s","e","r","t">>, <<"u","p","d","a","t","e">>, <<"d","e","l","e","t","e">>, <<"c","r","e","a","t","e">>, <<"a","l","t","e","r">>, <<"d","r","o","p">>} :
    Contains(Lower(stmt), k)

\* C19: a statement taken for data-modifying runs in one transaction: a
\* successful attempt reports an affected-row count, and a failed attempt
\* commits nothing, also when a healed retry follows
C19_DmlAllOrNothing ==
  /\ Len(committed) <= 1
  /\ (status # "success" => committed = <<>>)
  /\ (stage = "done" /\ status = "success" /\ HoldsDmlKeyword(current_sql)) =>
       /\ result.kind = "rows_affected"
       /\ committed = <<sent[Len(sent)]>>
  /\ (stage = "done" /\ status = "success" /\ ~HoldsDmlKeyword(current_sql)) =>
       /\ result.kind = "records"
       /\ committed = <<>>

\* a data-modifying statement failed, was healed, and only the retry committed
C19_Witness ==
  /\ stage = "done"
  /\ status = "success"
  /\ Len(sent) = 2
  /\ HoldsDmlKeyword(sent[1])
  /\ result.kind = "rows_affected"
  /\ committed = <<sent[2]>>

(***************************************************************************)
(* Properties of the start-up, the generate requests and the round trips   *)
(***************************************************************************)
\* _call_remote_llm was entered and has rendered the schema
Rendered == stage \in {"calling", "responded"} /\ http_status # 400

\* C16: if the rendered schema is empty (no selected table is in the Schema
\* Catalog, or the catalog is empty), the generate request fails before any
\* call of the generation backend; the backend is called only after a
\* non-empty schema was rendered, and with that schema in the prompt
C16_EmptySchemaFailsFast ==
  /\ Len(prompts) <= 1
  /\ stage \in {"starting", "loading", "serving"} => prompts = <<>>
  /\ Rendered =>
       /\ (schema_string = <<>>) = (tables \cap DOMAIN FULL_SCHEMA_CACHE = {})
       /\ schema_string = <<>> =>
            /\ prompts = <<>>
            /\ stage = "responded"
            /\ http_status = 500
       /\ schema_string # <<>> =>
            /\ Len(prompts) = 1
            /\ Contains(prompts[1], <<"C","R","E","A","T","E"," ","T","A","B","L","E"," ">>)
            /\ Contains(prompts[1], schema_string)
  /\ ~Rendered => prompts = <<>>

\* a request whose tables are all missing from a catalog that holds other
\* tables was refused without a call of the backend
C16_Witness ==
  /\ stage = "responded"
  /\ http_status = 500
  /\ tables # {}
  /\ DOMAIN FULL_SCHEMA_CACHE # {}
  /\ tables \cap DOMAIN FULL_SCHEMA_CACHE = {}
  /\ schema_string = <<>>
  /\ prompts = <<>>

\* the column names of the tables the cache holds
ColumnNamesOf(cache) ==
  UNION {{cache[t][j].name : j \in 1..Len(cache[t])} : t \in DOMAIN cache}

\* the module is loaded and requests can be served
Serving == stage \in {"serving", "calling", "responded"}

\* C17: whenever requests can be served, also after a start-up that failed
\* part-way through the schema file, the Column Index is the union of the
\* column names of the tables in the Schema Catalog
C17_IndexMatchesCatalog ==
  Serving => ALL_COLUMN_NAMES = ColumnNamesOf(FULL_SCHEMA_CACHE)

\* the request waits for an answer of the engine and no timeout ends the wait
WaitsForEngine == stage = "blocked"

\* C18: the database round trip is bounded by a timeout like the call of the
\* generation backend: an attempt given to the engine comes back with rows, an
\* error or a timeout, and no request is left waiting for the engine
C18_RoundTripsBounded == ~WaitsForEngine

(***************************************************************************)
(* Properties of the repairs: healing, state filters, the length guard     *)
(***************************************************************************)
\* the first attempt failed on the missing column c
FirstFailedOn(c) ==
  /\ Len(raised) >= 1
  /\ IsUndefinedColumn(raised[1])
  /\ MissingColumn(raised[1])[1]
  /\ MissingIdentifier(raised[1]) = c

\* C21: when a statement that refers to illiterate_person fails with
\* column "illiterate_person" does not exist and the Column Index holds
\* illiterate_persons, the reference is replaced by illiterate_persons, the
\* rewritten statement is tried once and healed is true
C21_PluralColumnHealed ==
  (/\ stage = "done"
   /\ FirstFailedOn(<<"i","l","l","i","t","e","r","a","t","e","_","p","e","r","s","o","n">>)
   /\ ContainsWord(sent[1], <<"i","l","l","i","t","e","r","a","t","e","_","p","e","r","s","o","n">>)
   /\ <<"i","l","l","i","t","e","r","a","t","e","_","p","e","r","s","o","n","s">> \in ALL_COLUMN_NAMES) =>
    /\ Len(sent) = 2
    /\ sent[2] # sent[1]
    /\ ~ContainsWord(sent[2], <<"i","l","l","i","t","e","r","a","t","e","_","p","e","r","s","o","n">>)
    /\ ContainsWord(sent[2], <<"i","l","l","i","t","e","r","a","t","e","_","p","e","r","s","o","n","s">>)
    /\ current_sql = sent[2]
    /\ healed = TRUE

\* the statement with the plural column was tried and succeeded
C21_Witness ==
  /\ stage = "done"
  /\ FirstFailedOn(<<"i","l","l","i","t","e","r","a","t","e","_","p","e","r","s","o","n">>)
  /\ sent = << <<"S","E","L","E","C","T"," ","s","t","a","t","e"," ","F","R","O","M"," ","e","d","u","c","a","t","i","o","n","_","s","t","a","t","s"," ","O","R","D","E","R"," ","B","Y"," ","i","l","l","i","t","e","r","a","t","e","_","p","e","r","s","o","n",";">>,
               <<"S","E","L","E","C","T"," ","s","t","a","t","e"," ","F","R","O","M"," ","e","d","u","c","a","t","i","o","n","_","s","t","a","t","s"," ","O","R","D","E","R"," ","B","Y"," ","i","l","l","i","t","e","r","a","t","e","_","p","e","r","s","o","n","s",";">> >>
  /\ status = "success"
  /\ healed = TRUE

\* s has a filter on state_name right after WHERE or AND, in any case
FiltersOnStateName(s) ==
  \E p \in 1..Len(s) : \E kw \in {<<"w","h","e","r","e">>, <<"a","n","d">>} :
    /\ BoundaryBefore(s, p)
    /\ Lit(Lower(s), Run1(s, Lit(Lower(s), p, kw), SpaceChars), <<"s","t","a","t","e","_","n","a","m","e">>) # 0

\* the only table of s is crop_stats
OnlyCropStats(s) == Contains(s, <<" ","F","R","O","M"," ","c","r","o","p","_","s","t","a","t","s">>) /\ ~Contains(Lower(s), <<"j","o","i","n">>)

\* C22: for a statement whose only table is crop_stats and that filters on
\* state_name after WHERE or after AND, the patched statement holds no
\* reference to state_name
C22_StateNameFilterNeutralized ==
  (Prepared /\ OnlyCropStats(normalized) /\ FiltersOnStateName(normalized)) =>
    ~Contains(Lower(FirstText), <<"s","t","a","t","e","_","n","a","m","e">>)

\* text between double quotes, and between single quotes
AsIdentifier(c) == <<"\"">> \o c \o <<"\"">>

AsLiteral(c) == <<"'">> \o c \o <<"'">>

\* C23: when the missing identifier starts with an upper-case letter or holds
\* a blank, the healer turns the double-quoted identifier into a single-quoted
\* literal and puts no similar column name in its place, also when the Column
\* Index holds a name that is similar enough
C23_LiteralNotFuzzyMatched ==
  (/\ Len(sent) = 2
   /\ IsUndefinedColumn(raised[1])
   /\ MissingColumn(raised[1])[1]
   /\ LET c == MissingIdentifier(raised[1])
      IN  /\ c # <<>>
          /\ (c[1] \in UpperSet \/ Contains(c, <<" ">>))
          /\ Contains(sent[1], AsIdentifier(c))) =>
    sent[2] = Replace(sent[1], AsIdentifier(MissingIdentifier(raised[1])),
                      AsLiteral(MissingIdentifier(raised[1])))

\* the words of s: the longest runs of word characters
Words(s) ==
  {SubSeq(s, p, RunEnd(s, p, WordChars) - 1) :
     p \in {i \in 1..Len(s) : IsWordAt(s, i) /\ ~IsWordAt(s, i - 1)}}

\* the first attempt failed on a missing column for which the Column Index has
\* a close match, and the statement was rewritten
HealedByMatch ==
  /\ Len(sent) = 2
  /\ IsUndefinedColumn(raised[1])
  /\ MissingColumn(raised[1])[1]
  /\ get_close_matches(MissingIdentifier(raised[1]), ALL_COLUMN_NAMES) # {}

\* C24: the statement healed by a close match is the failing statement with
\* the offending identifier replaced by the matched name and nothing else
\* changed: every word of it is a word of the failing statement or the matched
\* name, so no new identifier comes up
C24_OnlyOffendingIdentifierReplaced ==
  HealedByMatch =>
    Words(sent[2]) \subseteq
      Words(sent[1]) \cup get_close_matches(MissingIdentifier(raised[1]), ALL_COLUMN_NAMES)

\* C29: within one request the same text is never given to the engine twice:
\* a second execution happens only after a first attempt that failed on a
\* missing column and a healing that returned another text, and that text is
\* executed as the healer returned it
C29_RetryOnlyWithHealedText ==
  Len(sent) = 2 =>
    /\ sent[2] # sent[1]
    /\ Len(raised) >= 1
    /\ IsUndefinedColumn(raised[1])
    /\ sent[2] = heal_sql_query(sent[1], raised[1], ALL_COLUMN_NAMES)

\* the part of C29 that does not depend on the kind of the first error
RetrySendsHealedText ==
  Len(sent) = 2 =>
    /\ sent[2] # sent[1]
    /\ Len(raised) >= 1
    /\ sent[2] = heal_sql_query(sent[1], raised[1], ALL_COLUMN_NAMES)

\* C28: a statement longer than 2000 characters is returned by
\* patch_broken_sql unchanged whatever patterns it holds, and a statement of
\* 2000 characters or fewer is rewritten by all the fixes as without the guard
C28_LengthGuard ==
  Prepared =>
    /\ Len(normalized) > 2000 =>
         /\ FirstText = normalized
         /\ (attempt = 0 => healed = FALSE)
    /\ Len(normalized) <= 2000 =>
         FirstText = Fix4(Fix3(Fix2(Fix1(Fix0(normalized)))))

\* a statement of 2001 characters with a BIGINT cast was executed unpatched
C28_Witness ==
  /\ stage = "done"
  /\ Len(normalized) = 2001
  /\ Contains(normalized, <<" ","B","I","G","I","N","T"," ">>)
  /\ sent[1] = normalized
  /\ healed = FALSE


\* C30: with the service's RULES the truncation branch of select_tables is
\* never taken: without the agriculture intent the optional union of every
\* set of intents has at most MAX_OPTIONAL_TABLES tables, and the result is
\* exactly the core set and the adds sets of all rules whose intent is active.
C30_TruncationNeverTaken ==
  /\ \A active \in SUBSET (INTENTS \ {"agriculture"}) :
        Cardinality(ApplyRules(RULES, active) \ CORE_TABLES) <= MAX_OPTIONAL_TABLES
  /\ (stage = "selected" /\ "agriculture" \notin intents) =>
        /\ tables = ApplyRules(RULES, intents)
        /\ \A r \in 1..Len(RULES) :
              RULES[r].intent \in intents => RULES[r].adds \subseteq tables

C30_Witness ==
  /\ stage = "selected"
  /\ "agriculture" \notin intents
  /\ Cardinality(ApplyRules(RULES, intents) \ CORE_TABLES) = MAX_OPTIONAL_TABLES
  /\ tables = ApplyRules(RULES, intents)

\* C26: the optional tables kept by select_tables (service and evaluation
\* generator) are a function of the question and the rule list: every
\* evaluation of the same question, in any process, gives the same tables.
C26_SelectionDeterministic ==
  /\ stage = "selected" => select_tables(question) = {tables}
  /\ stage = "eval_selected" => eval_select_tables(question) = {tables}

\* the groups of `terms` in the opposite order
Reversed(terms) == [k \in 1..Len(terms) |-> terms[Len(terms) + 1 - k]]

\* the service's detect_intents: an intent without a strong term in the
\* question is detected exactly when one of its weak terms occurs and the
\* strong pass has found an intent
BackendWeakPassOrderFree ==
  stage = "selected" =>
     \A i \in INTENTS :
        Strong(i) \cap Substrings(Lower(question)) = {} =>
           (i \in intents <=>
              /\ Weak(i) \cap Substrings(Lower(question)) # {}
              /\ StrongPass(Lower(question)) # {})

\* the same for the detection loop of the training-data generator, whose
\* result is also the same when the groups are visited in the opposite order
TemplateWeakPassOrderFree ==
  stage = "template_selected" =>
     /\ \A k \in 1..Len(INTENT_TERMS) :
           INTENT_TERMS[k].strong \cap Substrings(Lower(question)) = {} =>
              (INTENT_TERMS[k].intent \in intents <=>
                 /\ INTENT_TERMS[k].weak \cap Substrings(Lower(question)) # {}
                 /\ \E j \in 1..Len(INTENT_TERMS) :
                       INTENT_TERMS[j].strong \cap Substrings(Lower(question)) # {})
     /\ intents = TemplateDetectFrom(Substrings(Lower(question)),
                                     Reversed(INTENT_TERMS), 1, {})

\* C25: an intent none of whose strong terms occurs in the question is
\* detected if and only if one of its weak terms occurs and some intent has a
\* strong term in the question, whatever the order in which the intents are
\* visited (service and training-data generator).
C25_WeakPassOrderFree == BackendWeakPassOrderFree /\ TemplateWeakPassOrderFree

\* the configuration and the catalog are what they were at the end of start-up
SharedStateAsStarted ==
  /\ core_tables = CORE_TABLES
  /\ rule_adds = RuleAdds
  /\ FULL_SCHEMA_CACHE = CacheOf(file_schema.tables, Len(file_schema.tables))
  /\ ALL_COLUMN_NAMES = IndexOf(file_schema)

\* what request r has computed so far is what its own input gives alone
OwnOutcome(r) ==
  /\ (pool[r].kind = "generate" /\ pool[r].pc # "received") =>
        /\ pool[r].intents = detect_intents(pool[r].input)
        /\ pool[r].tables \in select_tables(pool[r].input)
  /\ (pool[r].kind = "generate" /\ pool[r].pc \in {"calling", "done"}) =>
        pool[r].schema_string =
          build_schema_ddl(pool[r].tables,
                           CacheOf(file_schema.tables, Len(file_schema.tables)))
  /\ (pool[r].kind = "execute" /\ pool[r].pc # "received" /\ pool[r].attempt = 0) =>
        pool[r].current_sql = patch_broken_sql(sanitize_dot_columns(pool[r].input))
  /\ (pool[r].kind = "execute" /\ pool[r].attempt = 1) =>
        /\ pool[r].healed
        /\ \E e \in EngineErrors(patch_broken_sql(sanitize_dot_columns(pool[r].input))) :
              pool[r].current_sql =
                heal_sql_query(patch_broken_sql(sanitize_dot_columns(pool[r].input)),
                               e, IndexOf(file_schema))

\* C27: no step of a generate or execute request changes CORE_TABLES, the
\* adds sets of RULES, the schema catalog or the column index: after any
\* interleaving of the steps of concurrent requests they equal their values
\* at the end of start-up, and what each request computes depends on its own
\* input only.
C27_SharedStateReadOnly ==
  pool # <<>> => (SharedStateAsStarted /\ \A r \in Requests : OwnOutcome(r))

C27_Witness ==
  /\ pool # <<>>
  /\ pool[1].kind = "generate"
  /\ pool[1].pc = "calling"
  /\ pool[1].tables # CORE_TABLES
  /\ pool[2].kind = "generate"
  /\ pool[2].pc = "selected"
  /\ pool[2].tables \notin {pool[1].tables, CORE_TABLES, {"crop_stats"}}
  /\ SharedStateAsStarted
=============================================================================
